---- MODULE Spec2Model ----
(***************************************************************************)
(* The circuit breaker engine of server/services/circuitBreaker.ts         *)
(* (CircuitBreakerService) over the circuit_breakers and logs tables of    *)
(* server/storage.ts (DatabaseStorage).                                    *)
(*                                                                         *)
(* Every engine method is an async function: it runs up to its next        *)
(* awaited storage call, and other callers may run in between.  A caller   *)
(* is therefore a small program counter machine with one step per awaited  *)
(* storage statement; the decision taken between two awaits belongs to the *)
(* step of the statement that follows it.                                  *)
(***************************************************************************)
EXTENDS Integers, Sequences, FiniteSets, TLC

\* ---------------------------------------------------------------- bounds
\* the service names the callers pass to the engine
Services == {"payment-service"}
Callers == {"c1", "c2"}

\* thresholds of the records configured before the engine starts: 1..MaxThreshold
MaxThreshold == 3
\* recordFailure is not started on a record whose failureCount reached this
MaxFailures == 6
\* the clock is observed at the instants k * DefaultTimeout and one
\* millisecond later, k \in 0..MaxPeriods
MaxPeriods == 1
\* a call is started only while the logs table holds fewer rows than this
MaxLogs == 1

\* the callers of the platform around the engine (HTTP requests, timers)
TaskCallers == {"t1", "t2"}
\* a scale-up request is not started on a service that has this many instances
MaxInstances == 6
\* selectService is not called once it has been called this many times
MaxSelections == 3
\* startLoadTest is not called once the load_tests table has this many rows
MaxLoadTests == 2
\* a failure simulation is not started once this many have been started
MaxSimulations == 2
\* a simulation interval does not fire once the metrics table has this
\* many rows
MaxMetrics == 2

\* ------------------------------------------------------ program constants
DefaultFailureThreshold == 5
DefaultTimeout == 60000
\* lastFailure: null
NoDate == -1

TimePoints == {k * DefaultTimeout + j : k \in 0..MaxPeriods, j \in {0, 1}}

VARIABLES
    circuitBreakers,      \* the circuit_breakers table: a sequence of rows
    logs,                 \* the logs table: a sequence of rows
    now,                  \* the wall clock (Date.now(), new Date())
    calls,                \* per caller: the engine call it is running
    consecutiveFailures   \* history: per service, recordFailure writes since
                          \* the record was last written CLOSED with count 0

VARIABLES
    services,             \* the services table: its rows in the order a
                          \* SELECT without ORDER BY returns them
    tasks,                \* per caller: the platform call it is running
    currentIndex,         \* LoadBalancer.currentIndex
    selections,           \* history: the selectService calls made so far
    loadSimulator,        \* LoadSimulator: isRunning, currentTest, intervals
    loadTests,            \* the load_tests table: a sequence of rows
    activeFailures,       \* FailureSimulator.activeFailures: key -> timer
    metrics,              \* the number of rows of the metrics table
    timers                \* the timers of setInterval and setTimeout: a
                          \* sequence of handles, the handle is the index

\* the state of the load balancer
balancerVars == <<currentIndex, selections>>

\* the state of the load simulator
loadTestVars == <<loadSimulator, loadTests>>

\* the state of the failure simulator
simulatorVars == <<activeFailures, metrics>>

\* the platform state the service registry does not touch
offRegistry == <<balancerVars, loadTestVars, simulatorVars, timers>>

\* the platform state the load balancer does not touch
offBalancer == <<loadTestVars, simulatorVars, timers>>

\* the state of the platform around the engine
platformVars ==
    <<services, tasks, balancerVars, loadTestVars, simulatorVars, timers>>

vars == <<circuitBreakers, logs, now, calls, consecutiveFailures, platformVars>>

\* ------------------------------------------------------------ the store

\* a row as createCircuitBreaker inserts it (lastFailure is not set)
NewCircuitBreaker(serviceName, state, failureCount, failureThreshold, timeout) ==
    [serviceName |-> serviceName, state |-> state, failureCount |-> failureCount,
     failureThreshold |-> failureThreshold, lastFailure |-> NoDate,
     timeout |-> timeout]

\* a default row that starts in probation
DefaultCircuitBreakerHalfOpen(serviceName) ==
    NewCircuitBreaker(serviceName, "HALF_OPEN", 0, DefaultFailureThreshold, DefaultTimeout)

\* the row getCircuitBreaker creates for an unknown service
DefaultCircuitBreaker(serviceName) ==
    NewCircuitBreaker(serviceName, "CLOSED", 0, DefaultFailureThreshold, DefaultTimeout)

\* the row initializeData inserts for external-api (lastFailure: new Date(),
\* the time of the initialization); no caller of this model names it
SeedCircuitBreaker ==
    [NewCircuitBreaker("external-api", "OPEN", 52, 50, 60000)
        EXCEPT !.lastFailure = 0]

\* indices of the rows WHERE service_name = serviceName
RowsOf(store, serviceName) ==
    {i \in DOMAIN store : store[i].serviceName = serviceName}

\* an update that keeps only the rows it matches
UpdateCircuitBreakerKeepMatching(store, serviceName, updates) ==
    LET kept == SelectSeq(store, LAMBDA row : row.serviceName = serviceName) IN
    [i \in DOMAIN kept |->
        [f \in DOMAIN kept[i] |->
            IF f \in DOMAIN updates THEN updates[f] ELSE kept[i][f]]]

\* UPDATE circuit_breakers SET updates WHERE service_name = serviceName
UpdateCircuitBreaker(store, serviceName, updates) ==
    [i \in DOMAIN store |->
        IF store[i].serviceName = serviceName
        THEN [f \in DOMAIN store[i] |->
                 IF f \in DOMAIN updates THEN updates[f] ELSE store[i][f]]
        ELSE store[i]]

\* a row of the services table
NewService(id, name, status, instanceCount, load) ==
    [id |-> id, name |-> name, status |-> status,
     instanceCount |-> instanceCount, load |-> load, lastHealthCheck |-> 0]

\* two of the rows initializeData inserts: the service the callers name and
\* the one service that is down
SeedServices ==
    <<NewService(4, "payment-service", "healthy", 2, 45),
      NewService(6, "external-api", "unhealthy", 1, 0)>>

\* indices of the rows WHERE name = name
ServiceRowsOf(table, name) == {i \in DOMAIN table : table[i].name = name}

\* UPDATE services SET updates, last_health_check = date WHERE id = id
UpdateService(table, id, updates, date) ==
    [i \in DOMAIN table |->
        IF table[i].id = id
        THEN [f \in DOMAIN table[i] |->
                 IF f \in DOMAIN updates THEN updates[f]
                 ELSE IF f = "lastHealthCheck" THEN date
                 ELSE table[i][f]]
        ELSE table[i]]

\* The orders in which a SELECT without ORDER BY may return the rows after
\* the row `id` was updated: the table is scanned in storage order, and the
\* new version of an updated row keeps the place of the old one or is
\* stored after the other rows.
ScanOrders(table, id) ==
    {table} \cup
    {SelectSeq(table, LAMBDA row : row.id # id) \o
     SelectSeq(table, LAMBDA row : row.id = id)}

\* INSERT INTO logs
CreateLog(table, level, source, message) ==
    Append(table, [level |-> level, source |-> source, message |-> message])

\* ------------------------------------------------------------ the callers

NoOutcome == [kind |-> "none", value |-> "", error |-> ""]
Return(v) == [kind |-> "return", value |-> v, error |-> ""]
Throw(e) == [kind |-> "throw", value |-> "", error |-> e]

\* the message of the Error executeWithCircuitBreaker throws on a denied call
CircuitOpenMessage(serviceName) == "Circuit breaker is OPEN for " \o serviceName

\* what the caller supplied operation and fallback may do
OperationOutcomes == {Return("operation result"), Throw("operation failed")}
FallbackOutcomes == {Return("fallback result"), Throw("fallback failed")}

\* the message of the error a rejected storage call throws
StorageError == "storage unavailable"

\* the value of getCircuitBreakerMetrics before it is computed
NoMetrics ==
    [total |-> 0, closed |-> 0, open |-> 0, halfOpen |-> 0, circuitBreakers |-> <<>>]

\* operationOutcome, faults, trace, before, logsBefore, date and
\* fallbackOutcome are history of the call, the other fields are the locals
\* of the methods
Idle ==
    [top |-> "idle", method |-> "none", pc |-> "idle", serviceName |-> "",
     hasFallback |-> FALSE, circuitBreaker |-> <<>>, timeSinceLastFailure |-> 0,
     date |-> NoDate, returned |-> FALSE, canExecute |-> FALSE,
     result |-> "", error |-> "", fallbackOutcome |-> NoOutcome,
     outcome |-> NoOutcome, trace |-> <<>>, before |-> <<>>,
     operationOutcome |-> NoOutcome, faults |-> <<>>, logsBefore |-> <<>>,
     todo |-> <<>>, metrics |-> NoMetrics]

\* a caller entering the engine method `top` for serviceName
Enter(top, method, pc, serviceName, hasFallback) ==
    [Idle EXCEPT !.top = top, !.method = method, !.pc = pc,
                 !.serviceName = serviceName, !.hasFallback = hasFallback,
                 !.before = circuitBreakers, !.logsBefore = logs]

Quiescent == \A c \in Callers : calls[c].pc = "idle"

\* a platform caller that is not in a call.  top is the operation the
\* caller invoked, op the method it is in (autoScale calls scaleUp and
\* scaleDown), algorithm, load and duration are arguments, service the row
\* read, test the load test row of the call, timer the handle of the timer
\* whose callback the call is (0: none), todo the rows still to visit;
\* before, wrote and afterStop are history of the call
IdleTask ==
    [top |-> "idle", op |-> "none", pc |-> "idle", serviceName |-> "",
     algorithm |-> "", load |-> 0, duration |-> 0, test |-> 0, timer |-> 0,
     afterStop |-> FALSE, service |-> <<>>, todo |-> <<>>, outcome |-> NoOutcome,
     before |-> <<>>, wrote |-> <<>>]

\* the load simulator as constructed: isRunning = false, currentTest =
\* null (0 is no row), intervals = []
NoLoadTest == [isRunning |-> FALSE, currentTest |-> 0, intervals |-> {}]

\* no platform call is in progress
TasksIdle == \A t \in TaskCallers : tasks[t].pc = "idle"

LogsFull == Len(logs) >= MaxLogs

FailuresCapped(serviceName) ==
    \E i \in RowsOf(circuitBreakers, serviceName) :
        circuitBreakers[i].failureCount >= MaxFailures

\* the caller's state when the engine method it runs returns `returned`:
\* a method called by executeWithCircuitBreaker resumes it, any other
\* call is complete
MethodReturns(p, returned) ==
    LET q == [p EXCEPT !.returned = returned,
                       !.trace = Append(p.trace, p.method)]
    IN  IF p.top = "resetAllCircuitBreakers"
        THEN IF Len(p.todo) > 1
             THEN [q EXCEPT !.todo = Tail(p.todo),
                            !.serviceName = p.todo[2].serviceName,
                            !.pc = "update"]
             ELSE [q EXCEPT !.todo = <<>>, !.method = "resetAllCircuitBreakers",
                            !.pc = "done"]
        ELSE IF p.top # "executeWithCircuitBreaker"
        THEN [q EXCEPT !.pc = "done"]
        ELSE CASE p.method = "canExecute" ->
                    [q EXCEPT !.method = "executeWithCircuitBreaker",
                              !.canExecute = returned,
                              !.pc = "admission"]
               [] p.method = "recordSuccess" ->
                    [q EXCEPT !.method = "executeWithCircuitBreaker",
                              !.pc = "done",
                              !.outcome = Return(p.result)]
               [] p.method = "recordFailure" ->
                    [q EXCEPT !.method = "executeWithCircuitBreaker",
                              !.pc = "failed"]

\* the caller's state when a storage call of the engine method it runs
\* rejects: recordSuccess called in the try block of
\* executeWithCircuitBreaker is caught by its catch block, which calls
\* recordFailure; everywhere else the error leaves the engine
MethodThrows(p) ==
    LET q == [p EXCEPT !.faults = Append(p.faults, p.method)]
    IN  IF p.top = "executeWithCircuitBreaker" /\ p.method = "recordSuccess"
        THEN [q EXCEPT !.error = StorageError, !.method = "recordFailure",
                       !.pc = "get"]
        ELSE [q EXCEPT !.pc = "done", !.outcome = Throw(StorageError)]

Init ==
    /\ circuitBreakers \in
          {<<SeedCircuitBreaker>>} \cup
          {<<SeedCircuitBreaker,
             NewCircuitBreaker("payment-service", "CLOSED", 0, n, DefaultTimeout)>> :
              n \in 1..MaxThreshold}
    /\ logs = <<>>
    /\ now = 0
    /\ calls = [c \in Callers |-> Idle]
    /\ consecutiveFailures = [s \in Services |-> 0]
    /\ services = SeedServices
    /\ tasks = [t \in TaskCallers |-> IdleTask]
    /\ currentIndex = 0
    /\ selections = <<>>
    /\ loadSimulator = NoLoadTest
    /\ loadTests = <<>>
    /\ activeFailures = <<>>
    /\ metrics = 0
    /\ timers = <<>>

\* ------------------------------------------------------------ entry points

CallGetCircuitBreaker(c, s) ==
    /\ calls[c].pc = "idle"
    /\ ~LogsFull
    /\ calls' = [calls EXCEPT ![c] =
                    Enter("getCircuitBreaker", "getCircuitBreaker", "get", s, FALSE)]
    /\ UNCHANGED <<circuitBreakers, logs, now, consecutiveFailures,
                   platformVars>>

CallRecordSuccess(c, s) ==
    /\ calls[c].pc = "idle"
    /\ ~LogsFull
    /\ calls' = [calls EXCEPT ![c] =
                    Enter("recordSuccess", "recordSuccess", "get", s, FALSE)]
    /\ UNCHANGED <<circuitBreakers, logs, now, consecutiveFailures,
                   platformVars>>

CallRecordFailure(c, s) ==
    /\ calls[c].pc = "idle"
    /\ ~LogsFull
    /\ ~FailuresCapped(s)
    /\ calls' = [calls EXCEPT ![c] =
                    Enter("recordFailure", "recordFailure", "get", s, FALSE)]
    /\ UNCHANGED <<circuitBreakers, logs, now, consecutiveFailures,
                   platformVars>>

CallCanExecute(c, s) ==
    /\ calls[c].pc = "idle"
    /\ ~LogsFull
    /\ calls' = [calls EXCEPT ![c] =
                    Enter("canExecute", "canExecute", "get", s, FALSE)]
    /\ UNCHANGED <<circuitBreakers, logs, now, consecutiveFailures,
                   platformVars>>

CallExecuteWithCircuitBreaker(c, s, hasFallback) ==
    /\ calls[c].pc = "idle"
    /\ ~LogsFull
    /\ ~FailuresCapped(s)
    /\ calls' = [calls EXCEPT ![c] =
                    Enter("executeWithCircuitBreaker", "canExecute", "get", s,
                          hasFallback)]
    /\ UNCHANGED <<circuitBreakers, logs, now, consecutiveFailures,
                   platformVars>>

CallResetCircuitBreaker(c, s) ==
    /\ calls[c].pc = "idle"
    /\ ~LogsFull
    /\ calls' = [calls EXCEPT ![c] =
                    Enter("resetCircuitBreaker", "resetCircuitBreaker", "update",
                          s, FALSE)]
    /\ UNCHANGED <<circuitBreakers, logs, now, consecutiveFailures,
                   platformVars>>

CallResetAllCircuitBreakers(c) ==
    /\ calls[c].pc = "idle"
    /\ ~LogsFull
    /\ calls' = [calls EXCEPT ![c] =
                    Enter("resetAllCircuitBreakers", "resetAllCircuitBreakers",
                          "list", "", FALSE)]
    /\ UNCHANGED <<circuitBreakers, logs, now, consecutiveFailures,
                   platformVars>>

CallGetCircuitBreakerMetrics(c) ==
    /\ calls[c].pc = "idle"
    /\ ~LogsFull
    /\ calls' = [calls EXCEPT ![c] =
                    Enter("getCircuitBreakerMetrics", "getCircuitBreakerMetrics",
                          "list", "", FALSE)]
    /\ UNCHANGED <<circuitBreakers, logs, now, consecutiveFailures,
                   platformVars>>

\* ------------------------------------------------------ getCircuitBreaker

\* await storage.getCircuitBreaker(serviceName): the first row of the
\* SELECT, which has no ORDER BY
GetCircuitBreakerSelect(c) ==
    LET p == calls[c] IN
    /\ p.pc = "get"
    /\ \/ /\ RowsOf(circuitBreakers, p.serviceName) = {}
          /\ calls' = [calls EXCEPT ![c] = [p EXCEPT !.pc = "create"]]
       \/ \E i \in RowsOf(circuitBreakers, p.serviceName) :
            LET q == [p EXCEPT !.circuitBreaker = <<circuitBreakers[i]>>] IN
            calls' = [calls EXCEPT ![c] =
                        IF p.method = "getCircuitBreaker"
                        THEN [q EXCEPT !.pc = "done"]
                        ELSE [q EXCEPT !.pc = "decide"]]
    /\ UNCHANGED <<circuitBreakers, logs, now, consecutiveFailures,
                   platformVars>>

\* await storage.createCircuitBreaker({... defaults ...})
GetCircuitBreakerCreate(c) ==
    LET p == calls[c]
        row == DefaultCircuitBreaker(p.serviceName)
        q == [p EXCEPT !.circuitBreaker = <<row>>]
    IN
    /\ p.pc = "create"
    /\ circuitBreakers' = Append(circuitBreakers, row)
    /\ consecutiveFailures' = [consecutiveFailures EXCEPT ![p.serviceName] = 0]
    /\ calls' = [calls EXCEPT ![c] =
                    IF p.method = "getCircuitBreaker"
                    THEN [q EXCEPT !.pc = "done"]
                    ELSE [q EXCEPT !.pc = "decide"]]
    /\ UNCHANGED <<logs, now, platformVars>>

\* ---------------------------------------------------------- recordSuccess

\* HALF_OPEN -> CLOSED that forgets to clear the count
RecordSuccessUpdatesKeepCount(cb) ==
    IF cb.state = "HALF_OPEN"
    THEN <<[state |-> "CLOSED"]>>
    ELSE IF cb.state = "CLOSED" /\ cb.failureCount > 0
         THEN <<[failureCount |-> 0]>>
         ELSE <<>>

\* a success while CLOSED that leaves the count alone
RecordSuccessUpdatesNoReset(cb) ==
    IF cb.state = "HALF_OPEN"
    THEN <<[state |-> "CLOSED", failureCount |-> 0]>>
    ELSE <<>>

\* a success that closes whatever is not CLOSED
RecordSuccessUpdatesCloseOpen(cb) ==
    IF cb.state # "CLOSED"
    THEN <<[state |-> "CLOSED", failureCount |-> 0]>>
    ELSE IF cb.failureCount > 0
         THEN <<[failureCount |-> 0]>>
         ELSE <<>>

\* the columns recordSuccess writes for the record it read: none (<<>>)
\* unless that record is HALF_OPEN, or CLOSED with failures counted
RecordSuccessUpdates(cb) ==
    IF cb.state = "HALF_OPEN"
    THEN <<[state |-> "CLOSED", failureCount |-> 0]>>
    ELSE IF cb.state = "CLOSED" /\ cb.failureCount > 0
         THEN <<[failureCount |-> 0]>>
         ELSE <<>>

\* recordSuccess after getCircuitBreaker returned: the awaited update, if any
RecordSuccessUpdate(c) ==
    LET p == calls[c]
        cb == p.circuitBreaker[1]
        updates == RecordSuccessUpdates(cb)
    IN
    /\ p.method = "recordSuccess"
    /\ p.pc = "decide"
    /\ IF updates = <<>>
       THEN /\ calls' = [calls EXCEPT ![c] = MethodReturns(p, FALSE)]
            /\ UNCHANGED <<circuitBreakers, consecutiveFailures>>
       ELSE /\ circuitBreakers' =
                  UpdateCircuitBreaker(circuitBreakers, p.serviceName, updates[1])
            /\ consecutiveFailures' =
                  [consecutiveFailures EXCEPT ![p.serviceName] = 0]
            /\ calls' = [calls EXCEPT ![c] =
                            IF cb.state = "HALF_OPEN"
                            THEN [p EXCEPT !.pc = "log"]
                            ELSE MethodReturns(p, FALSE)]
    /\ UNCHANGED <<logs, now, platformVars>>

\* the awaited createLog after HALF_OPEN -> CLOSED
RecordSuccessLog(c) ==
    LET p == calls[c] IN
    /\ p.method = "recordSuccess"
    /\ p.pc = "log"
    /\ logs' = CreateLog(logs, "info", p.serviceName, "reset to CLOSED state")
    /\ calls' = [calls EXCEPT ![c] = MethodReturns(p, FALSE)]
    /\ UNCHANGED <<circuitBreakers, now, consecutiveFailures, platformVars>>

\* ---------------------------------------------------------- recordFailure

\* newFailureCount > failureThreshold instead of >=
RecordFailureBranchStrict(cb) ==
    LET newFailureCount == cb.failureCount + 1 IN
    IF cb.state = "CLOSED" /\ newFailureCount > cb.failureThreshold
    THEN "open"
    ELSE IF cb.state = "HALF_OPEN" THEN "reopen" ELSE "count"

\* a failure on an OPEN record handled as a reopening
RecordFailureBranchOpenReopens(cb) ==
    LET newFailureCount == cb.failureCount + 1 IN
    IF cb.state = "CLOSED" /\ newFailureCount >= cb.failureThreshold
    THEN "open"
    ELSE IF cb.state \in {"HALF_OPEN", "OPEN"} THEN "reopen" ELSE "count"

\* which of the three branches of recordFailure the record read selects
RecordFailureBranch(cb) ==
    LET newFailureCount == cb.failureCount + 1 IN
    IF cb.state = "CLOSED" /\ newFailureCount >= cb.failureThreshold
    THEN "open"
    ELSE IF cb.state = "HALF_OPEN" THEN "reopen" ELSE "count"

\* a reopening that keeps the old lastFailure
RecordFailureUpdatesStaleDate(cb, date) ==
    LET newFailureCount == cb.failureCount + 1 IN
    IF RecordFailureBranch(cb) = "open"
    THEN [state |-> "OPEN", failureCount |-> newFailureCount, lastFailure |-> date]
    ELSE IF RecordFailureBranch(cb) = "reopen"
         THEN [state |-> "OPEN", failureCount |-> newFailureCount]
         ELSE [failureCount |-> newFailureCount, lastFailure |-> date]

\* a failure that leaves lastFailure as it is
RecordFailureUpdatesNoDate(cb, date) ==
    LET newFailureCount == cb.failureCount + 1 IN
    IF RecordFailureBranch(cb) \in {"open", "reopen"}
    THEN [state |-> "OPEN", failureCount |-> newFailureCount]
    ELSE [failureCount |-> newFailureCount]

\* a failure below the threshold that only counts
RecordFailureUpdatesCountOnly(cb, date) ==
    LET newFailureCount == cb.failureCount + 1 IN
    IF RecordFailureBranch(cb) \in {"open", "reopen"}
    THEN [state |-> "OPEN", failureCount |-> newFailureCount, lastFailure |-> date]
    ELSE [failureCount |-> newFailureCount]

\* an increment made by the database on the stored row
\* (SET failure_count = failure_count + 1) instead of on the row read
RecordFailureUpdatesAtomic(cb, date) ==
    LET stored == circuitBreakers[CHOOSE i \in RowsOf(circuitBreakers, cb.serviceName) : TRUE]
        newFailureCount == stored.failureCount + 1
    IN
    IF RecordFailureBranch(cb) \in {"open", "reopen"}
    THEN [state |-> "OPEN", failureCount |-> newFailureCount, lastFailure |-> date]
    ELSE [failureCount |-> newFailureCount, lastFailure |-> date]

\* the columns recordFailure writes, date being new Date()
RecordFailureUpdates(cb, date) ==
    LET newFailureCount == cb.failureCount + 1 IN
    IF RecordFailureBranch(cb) \in {"open", "reopen"}
    THEN [state |-> "OPEN", failureCount |-> newFailureCount, lastFailure |-> date]
    ELSE [failureCount |-> newFailureCount, lastFailure |-> date]

\* recordFailure after getCircuitBreaker returned: the awaited update
RecordFailureUpdate(c) ==
    LET p == calls[c]
        cb == p.circuitBreaker[1]
    IN
    /\ p.method = "recordFailure"
    /\ p.pc = "decide"
    /\ circuitBreakers' =
          UpdateCircuitBreaker(circuitBreakers, p.serviceName,
                               RecordFailureUpdates(cb, now))
    /\ consecutiveFailures' =
          [consecutiveFailures EXCEPT ![p.serviceName] = @ + 1]
    /\ calls' = [calls EXCEPT ![c] =
                    IF RecordFailureBranch(cb) = "count"
                    THEN MethodReturns([p EXCEPT !.date = now], TRUE)
                    ELSE [p EXCEPT !.date = now, !.pc = "log"]]
    /\ UNCHANGED <<logs, now, platformVars>>

\* every opening logged as an error
RecordFailureLevelError(cb) == "error"

\* level: "error" in the CLOSED branch, level: "warn" in the HALF_OPEN branch
RecordFailureLevel(cb) ==
    IF RecordFailureBranch(cb) = "open" THEN "error" ELSE "warn"

\* the awaited createLog after CLOSED -> OPEN (error) or HALF_OPEN -> OPEN (warn)
RecordFailureLog(c) ==
    LET p == calls[c]
        cb == p.circuitBreaker[1]
    IN
    /\ p.method = "recordFailure"
    /\ p.pc = "log"
    /\ logs' = IF RecordFailureBranch(cb) = "open"
               THEN CreateLog(logs, RecordFailureLevel(cb), p.serviceName, "opened")
               ELSE CreateLog(logs, RecordFailureLevel(cb), p.serviceName, "reopened")
    /\ calls' = [calls EXCEPT ![c] = MethodReturns(p, FALSE)]
    /\ UNCHANGED <<circuitBreakers, now, consecutiveFailures, platformVars>>

\* ------------------------------------------------------------- canExecute

\* timeSinceLastFailure > timeout instead of >=
TimeoutElapsedStrict(cb, t) ==
    /\ cb.lastFailure # NoDate
    /\ t - cb.lastFailure > cb.timeout

\* case "OPEN": has the timeout elapsed at Date.now() = t
TimeoutElapsed(cb, t) ==
    /\ cb.lastFailure # NoDate
    /\ t - cb.lastFailure >= cb.timeout

\* a canExecute that lets a single state through
StateAdmitsClosedOnly(state) == state = "CLOSED"

\* case "CLOSED": return true; case "HALF_OPEN": return true
StateAdmits(state) == state \in {"CLOSED", "HALF_OPEN"}

\* canExecute after getCircuitBreaker returned: the switch on the state read
CanExecuteSwitch(c) ==
    LET p == calls[c]
        cb == p.circuitBreaker[1]
    IN
    /\ p.method = "canExecute"
    /\ p.pc = "decide"
    /\ CASE cb.state = "CLOSED" ->
              /\ calls' = [calls EXCEPT ![c] =
                             MethodReturns(p, StateAdmits(cb.state))]
              /\ UNCHANGED circuitBreakers
         [] cb.state = "HALF_OPEN" ->
              /\ calls' = [calls EXCEPT ![c] =
                             MethodReturns(p, StateAdmits(cb.state))]
              /\ UNCHANGED circuitBreakers
         [] cb.state = "OPEN" ->
              LET q == IF cb.lastFailure # NoDate
                       THEN [p EXCEPT !.timeSinceLastFailure = now - cb.lastFailure]
                       ELSE p
              IN  IF TimeoutElapsed(cb, now)
                  THEN /\ circuitBreakers' =
                             UpdateCircuitBreaker(circuitBreakers, p.serviceName,
                                                  [state |-> "HALF_OPEN"])
                       /\ calls' = [calls EXCEPT ![c] = [q EXCEPT !.pc = "log"]]
                  ELSE /\ calls' = [calls EXCEPT ![c] = MethodReturns(q, FALSE)]
                       /\ UNCHANGED circuitBreakers
         [] OTHER ->
              /\ calls' = [calls EXCEPT ![c] = MethodReturns(p, FALSE)]
              /\ UNCHANGED circuitBreakers
    /\ UNCHANGED <<logs, now, consecutiveFailures, platformVars>>

\* the awaited createLog after OPEN -> HALF_OPEN, then return true
CanExecuteLog(c) ==
    LET p == calls[c] IN
    /\ p.method = "canExecute"
    /\ p.pc = "log"
    /\ logs' = CreateLog(logs, "info", p.serviceName,
                         "transitioned to HALF_OPEN state")
    /\ calls' = [calls EXCEPT ![c] = MethodReturns(p, TRUE)]
    /\ UNCHANGED <<circuitBreakers, now, consecutiveFailures, platformVars>>

\* ---------------------------------------------- executeWithCircuitBreaker

\* a denied call with a fallback that still tries the operation first
AdmissionBranchTryFirst(canExecute, hasFallback) ==
    IF ~canExecute /\ ~hasFallback THEN "throw" ELSE "operation"

\* a denied call without a fallback that falls through to the try block
AdmissionBranchNoThrow(canExecute, hasFallback) ==
    IF ~canExecute /\ hasFallback THEN "fallback" ELSE "operation"

\* if (!canExecute) { if (fallback) {...} else { throw ... } } try {...}
AdmissionBranch(canExecute, hasFallback) ==
    IF ~canExecute
    THEN IF hasFallback THEN "fallback" ELSE "throw"
    ELSE "operation"

\* after canExecute returned: run the operation, or log and go to the
\* fallback, or throw
ExecuteAdmission(c) ==
    LET p == calls[c]
        branch == AdmissionBranch(p.canExecute, p.hasFallback)
    IN
    /\ p.method = "executeWithCircuitBreaker"
    /\ p.pc = "admission"
    /\ CASE branch = "operation" ->
              /\ calls' = [calls EXCEPT ![c] = [p EXCEPT !.pc = "operation"]]
              /\ UNCHANGED logs
         [] branch = "fallback" ->
              /\ logs' = CreateLog(logs, "info", p.serviceName,
                                   "OPEN, executing fallback")
              /\ calls' = [calls EXCEPT ![c] = [p EXCEPT !.pc = "fallback"]]
         [] branch = "throw" ->
              /\ calls' = [calls EXCEPT ![c] =
                             [p EXCEPT !.pc = "done",
                                       !.outcome =
                                          Throw(CircuitOpenMessage(p.serviceName))]]
              /\ UNCHANGED logs
    /\ UNCHANGED <<circuitBreakers, now, consecutiveFailures, platformVars>>

\* try { const result = await operation(); ... } catch (error) { ... }
ExecuteOperation(c) ==
    LET p == calls[c] IN
    /\ p.method = "executeWithCircuitBreaker"
    /\ p.pc = "operation"
    /\ \E o \in OperationOutcomes :
          LET q == [p EXCEPT !.trace = Append(p.trace, "operation"),
                             !.operationOutcome = o,
                             !.pc = "get"]
          IN  calls' = [calls EXCEPT ![c] =
                          IF o.kind = "return"
                          THEN [q EXCEPT !.result = o.value,
                                         !.method = "recordSuccess"]
                          ELSE [q EXCEPT !.error = o.error,
                                         !.method = "recordFailure"]]
    /\ UNCHANGED <<circuitBreakers, logs, now, consecutiveFailures,
                   platformVars>>

\* the catch block raising a new Error around the operation's
RethrowWrapped(error) == Throw("Operation failed: " \o error)

\* throw error: what the catch block raises when there is no fallback
Rethrow(error) == Throw(error)

\* after recordFailure returned in the catch block: fallback ? log : throw error
ExecuteFailed(c) ==
    LET p == calls[c] IN
    /\ p.method = "executeWithCircuitBreaker"
    /\ p.pc = "failed"
    /\ IF p.hasFallback
       THEN /\ logs' = CreateLog(logs, "warn", p.serviceName,
                                 "Operation failed, executing fallback")
            /\ calls' = [calls EXCEPT ![c] = [p EXCEPT !.pc = "fallback"]]
       ELSE /\ calls' = [calls EXCEPT ![c] =
                           [p EXCEPT !.pc = "done", !.outcome = Rethrow(p.error)]]
            /\ UNCHANGED logs
    /\ UNCHANGED <<circuitBreakers, now, consecutiveFailures, platformVars>>

\* a failing fallback after a failed operation surfacing the operation's error
FallbackReturnOperationError(o, error) ==
    IF o.kind = "throw" /\ error # "" THEN Throw(error) ELSE o

\* return fallback(): what execute yields when the fallback yields o
\* (error is the operation's error when the fallback runs in the catch block)
FallbackReturn(o, error) == o

\* return fallback()
ExecuteFallback(c) ==
    LET p == calls[c] IN
    /\ p.method = "executeWithCircuitBreaker"
    /\ p.pc = "fallback"
    /\ \E o \in FallbackOutcomes :
          calls' = [calls EXCEPT ![c] =
                      [p EXCEPT !.trace = Append(p.trace, "fallback"),
                                !.pc = "done", !.fallbackOutcome = o,
                                !.outcome = FallbackReturn(o, p.error)]]
    /\ UNCHANGED <<circuitBreakers, logs, now, consecutiveFailures,
                   platformVars>>

\* ---------------------------------------------------- resetCircuitBreaker

\* a reset that only closes
ResetUpdatesStateOnly == [state |-> "CLOSED"]

\* a reset that only clears the count
ResetUpdatesCountOnly == [failureCount |-> 0]

\* a reset that also restores the default configuration
ResetUpdatesWithDefaults ==
    [state |-> "CLOSED", failureCount |-> 0,
     failureThreshold |-> DefaultFailureThreshold, timeout |-> DefaultTimeout]

\* the columns resetCircuitBreaker writes
ResetUpdates == [state |-> "CLOSED", failureCount |-> 0]

\* await storage.updateCircuitBreaker(serviceName, {state: "CLOSED", failureCount: 0})
ResetUpdate(c) ==
    LET p == calls[c] IN
    /\ p.method = "resetCircuitBreaker"
    /\ p.pc = "update"
    /\ circuitBreakers' =
          UpdateCircuitBreaker(circuitBreakers, p.serviceName, ResetUpdates)
    /\ consecutiveFailures' =
          [s \in Services |->
              IF s = p.serviceName THEN 0 ELSE consecutiveFailures[s]]
    /\ calls' = [calls EXCEPT ![c] = [p EXCEPT !.pc = "log"]]
    /\ UNCHANGED <<logs, now, platformVars>>

\* await storage.createLog({level: "info", source: "circuit-breaker", ...})
ResetLog(c) ==
    LET p == calls[c] IN
    /\ p.method = "resetCircuitBreaker"
    /\ p.pc = "log"
    /\ logs' = CreateLog(logs, "info", "circuit-breaker", "Manually reset")
    /\ calls' = [calls EXCEPT ![c] = MethodReturns(p, FALSE)]
    /\ UNCHANGED <<circuitBreakers, now, consecutiveFailures, platformVars>>

\* ------------------------------------------------ resetAllCircuitBreakers

\* const circuitBreakers = await storage.getAllCircuitBreakers(); the loop
\* then calls resetCircuitBreaker(cb.serviceName) for each row in turn
ResetAllList(c) ==
    LET p == calls[c] IN
    /\ p.method = "resetAllCircuitBreakers"
    /\ p.pc = "list"
    /\ calls' = [calls EXCEPT ![c] =
                    IF circuitBreakers = <<>>
                    THEN [p EXCEPT !.pc = "done",
                                   !.trace = Append(p.trace, p.method)]
                    ELSE [p EXCEPT !.todo = circuitBreakers,
                                   !.method = "resetCircuitBreaker",
                                   !.serviceName = circuitBreakers[1].serviceName,
                                   !.pc = "update"]]
    /\ UNCHANGED <<circuitBreakers, logs, now, consecutiveFailures,
                   platformVars>>

\* ----------------------------------------------- getCircuitBreakerMetrics

\* circuitBreakers.filter(cb => cb.state === state).length
CountState(rows, state) ==
    Cardinality({i \in DOMAIN rows : rows[i].state = state})

\* metrics that count a probing breaker as open
MetricsHalfOpenAsOpen(rows) ==
    [total |-> Len(rows),
     closed |-> CountState(rows, "CLOSED"),
     open |-> CountState(rows, "OPEN") + CountState(rows, "HALF_OPEN"),
     halfOpen |-> CountState(rows, "HALF_OPEN"),
     circuitBreakers |->
        [i \in DOMAIN rows |->
            [serviceName |-> rows[i].serviceName, state |-> rows[i].state,
             failureCount |-> rows[i].failureCount,
             failureThreshold |-> rows[i].failureThreshold,
             lastFailure |-> rows[i].lastFailure]]]

\* metrics whose total leaves out the probing breakers
MetricsTotalWithoutHalfOpen(rows) ==
    [total |-> CountState(rows, "CLOSED") + CountState(rows, "OPEN"),
     closed |-> CountState(rows, "CLOSED"),
     open |-> CountState(rows, "OPEN"),
     halfOpen |-> CountState(rows, "HALF_OPEN"),
     circuitBreakers |->
        [i \in DOMAIN rows |->
            [serviceName |-> rows[i].serviceName, state |-> rows[i].state,
             failureCount |-> rows[i].failureCount,
             failureThreshold |-> rows[i].failureThreshold,
             lastFailure |-> rows[i].lastFailure]]]

\* the object getCircuitBreakerMetrics returns for the rows it read
Metrics(rows) ==
    [total |-> Len(rows),
     closed |-> CountState(rows, "CLOSED"),
     open |-> CountState(rows, "OPEN"),
     halfOpen |-> CountState(rows, "HALF_OPEN"),
     circuitBreakers |->
        [i \in DOMAIN rows |->
            [serviceName |-> rows[i].serviceName, state |-> rows[i].state,
             failureCount |-> rows[i].failureCount,
             failureThreshold |-> rows[i].failureThreshold,
             lastFailure |-> rows[i].lastFailure]]]

\* const circuitBreakers = await storage.getAllCircuitBreakers(); return {...}
MetricsList(c) ==
    LET p == calls[c] IN
    /\ p.method = "getCircuitBreakerMetrics"
    /\ p.pc = "list"
    /\ calls' = [calls EXCEPT ![c] =
                    [p EXCEPT !.metrics = Metrics(circuitBreakers),
                              !.pc = "done",
                              !.trace = Append(p.trace, p.method)]]
    /\ UNCHANGED <<circuitBreakers, logs, now, consecutiveFailures,
                   platformVars>>

\* ------------------------------------------------------------ environment

\* the caller takes the result of its call
Complete(c) ==
    /\ calls[c].pc = "done"
    /\ calls' = [calls EXCEPT ![c] = Idle]
    /\ UNCHANGED <<circuitBreakers, logs, now, consecutiveFailures,
                   platformVars>>

\* time passes
Tick ==
    /\ \E t \in TimePoints : t > now /\ now' = t
    /\ UNCHANGED <<circuitBreakers, logs, calls, consecutiveFailures,
                   platformVars>>

\* DELETE /api/logs: storage.clearLogs()
ClearLogs ==
    /\ logs # <<>>
    /\ logs' = <<>>
    /\ UNCHANGED <<circuitBreakers, now, calls, consecutiveFailures,
                   platformVars>>

\* the next statement of the call p is an awaited storage call
StorageCallPending(p) ==
    \/ p.pc \in {"get", "create", "update", "log", "list"}
    \/ /\ p.pc = "decide"
       /\ \/ p.method = "recordFailure"
          \/ p.method = "recordSuccess"
                /\ RecordSuccessUpdates(p.circuitBreaker[1]) # <<>>
          \/ /\ p.method = "canExecute"
             /\ p.circuitBreaker[1].state = "OPEN"
             /\ TimeoutElapsed(p.circuitBreaker[1], now)
    \/ p.pc = "admission" /\ AdmissionBranch(p.canExecute, p.hasFallback) = "fallback"
    \/ p.pc = "failed" /\ p.hasFallback

\* the storage call a caller is about to make rejects (the database is
\* unreachable); nothing is written
StorageFails(c) ==
    /\ StorageCallPending(calls[c])
    /\ calls' = [calls EXCEPT ![c] = MethodThrows(calls[c])]
    /\ UNCHANGED <<circuitBreakers, logs, now, consecutiveFailures,
                   platformVars>>

\* one step of a call in progress
Step(c) ==
    \/ GetCircuitBreakerSelect(c)
    \/ GetCircuitBreakerCreate(c)
    \/ RecordSuccessUpdate(c)
    \/ RecordSuccessLog(c)
    \/ RecordFailureUpdate(c)
    \/ RecordFailureLog(c)
    \/ CanExecuteSwitch(c)
    \/ CanExecuteLog(c)
    \/ ExecuteAdmission(c)
    \/ ExecuteOperation(c)
    \/ ExecuteFailed(c)
    \/ ExecuteFallback(c)
    \/ ResetUpdate(c)
    \/ ResetLog(c)
    \/ ResetAllList(c)
    \/ MetricsList(c)
    \/ Complete(c)

\* a caller enters the engine
Call(c) ==
    \/ \E s \in Services :
          \/ CallGetCircuitBreaker(c, s)
          \/ CallRecordSuccess(c, s)
          \/ CallRecordFailure(c, s)
          \/ CallCanExecute(c, s)
          \/ \E hasFallback \in BOOLEAN :
                CallExecuteWithCircuitBreaker(c, s, hasFallback)
          \/ CallResetCircuitBreaker(c, s)
    \/ CallResetAllCircuitBreakers(c)
    \/ CallGetCircuitBreakerMetrics(c)

\* engine calls made one after another: the single caller c1 starts a
\* call when its previous one has returned, and time passes at any moment
Next ==
    \/ Call("c1")
    \/ Step("c1")
    \/ Tick
    \/ Quiescent /\ ClearLogs

Spec == Init /\ [][Next]_vars

\* the same calls over a store whose calls may reject
FaultNext ==
    \/ Call("c1")
    \/ Step("c1")
    \/ StorageFails("c1")
    \/ Tick
    \/ Quiescent /\ ClearLogs

FaultSpec == Init /\ [][FaultNext]_vars

\* caller c has entered a method and not yet run its first statement
JustEntered(c) ==
    /\ calls[c].pc \in {"get", "update"}
    /\ calls[c].circuitBreaker = <<>>
    /\ calls[c].trace = <<>>
    /\ calls[c].before = circuitBreakers

\* the single record methods of the engine
CallRecordMethod(c) ==
    \E s \in Services :
        \/ CallGetCircuitBreaker(c, s)
        \/ CallRecordSuccess(c, s)
        \/ CallRecordFailure(c, s)
        \/ CallCanExecute(c, s)
        \/ CallResetCircuitBreaker(c, s)

\* one step of a single record method in progress
RecordMethodStep(c) ==
    \/ GetCircuitBreakerSelect(c)
    \/ GetCircuitBreakerCreate(c)
    \/ RecordSuccessUpdate(c)
    \/ RecordSuccessLog(c)
    \/ RecordFailureUpdate(c)
    \/ RecordFailureLog(c)
    \/ CanExecuteSwitch(c)
    \/ CanExecuteLog(c)
    \/ ResetUpdate(c)
    \/ ResetLog(c)
    \/ Complete(c)

\* two overlapping calls: c2 enters the engine together with c1, their
\* awaited statements then interleave in every order; the clock is
\* read within one instant during the overlap
ConcurrentNext ==
    \/ calls["c2"].pc = "idle" /\ CallRecordMethod("c1")
    \/ JustEntered("c1") /\ CallRecordMethod("c2")
    \/ \E c \in Callers : RecordMethodStep(c)
    \/ Quiescent /\ Tick
    \/ Quiescent /\ ClearLogs

ConcurrentSpec == Init /\ [][ConcurrentNext]_vars

\* one step of a guarded call without fallback
ProbeStep(c) ==
    \/ GetCircuitBreakerSelect(c)
    \/ GetCircuitBreakerCreate(c)
    \/ RecordSuccessUpdate(c)
    \/ RecordSuccessLog(c)
    \/ RecordFailureUpdate(c)
    \/ RecordFailureLog(c)
    \/ CanExecuteSwitch(c)
    \/ CanExecuteLog(c)
    \/ ExecuteAdmission(c)
    \/ ExecuteOperation(c)
    \/ ExecuteFailed(c)
    \/ Complete(c)

\* two overlapping guarded calls
ProbeNext ==
    \/ /\ calls["c2"].pc = "idle"
       /\ \E s \in Services : CallExecuteWithCircuitBreaker("c1", s, FALSE)
    \/ /\ JustEntered("c1")
       /\ \E s \in Services : CallExecuteWithCircuitBreaker("c2", s, FALSE)
    \/ \E c \in Callers : ProbeStep(c)
    \/ Quiescent /\ Tick
    \/ Quiescent /\ ClearLogs

ProbeSpec == Init /\ [][ProbeNext]_vars

\* one step of a recordFailure call
FailureStep(c) ==
    \/ GetCircuitBreakerSelect(c)
    \/ GetCircuitBreakerCreate(c)
    \/ RecordFailureUpdate(c)
    \/ RecordFailureLog(c)
    \/ Complete(c)

\* two overlapping failure reports
FailureNext ==
    \/ /\ calls["c2"].pc = "idle"
       /\ \E s \in Services : CallRecordFailure("c1", s)
    \/ /\ JustEntered("c1")
       /\ \E s \in Services : CallRecordFailure("c2", s)
    \/ \E c \in Callers : FailureStep(c)
    \/ Quiescent /\ Tick
    \/ Quiescent /\ ClearLogs

FailureSpec == Init /\ [][FailureNext]_vars

\* the methods that write a record
CallWriter(c) ==
    \E s \in Services :
        \/ CallRecordSuccess(c, s)
        \/ CallRecordFailure(c, s)
        \/ CallCanExecute(c, s)
        \/ CallResetCircuitBreaker(c, s)

\* one step of a writing method in progress
WriterStep(c) ==
    \/ GetCircuitBreakerSelect(c)
    \/ GetCircuitBreakerCreate(c)
    \/ RecordSuccessUpdate(c)
    \/ RecordSuccessLog(c)
    \/ RecordFailureUpdate(c)
    \/ RecordFailureLog(c)
    \/ CanExecuteSwitch(c)
    \/ CanExecuteLog(c)
    \/ ResetUpdate(c)
    \/ ResetLog(c)
    \/ Complete(c)

\* the place of a method in the class
MethodOrder(method) ==
    CASE method = "recordSuccess" -> 1
      [] method = "recordFailure" -> 2
      [] method = "canExecute" -> 3
      [] method = "resetCircuitBreaker" -> 4
      [] OTHER -> 0

\* two overlapping calls of the writing methods; of the two callers, which
\* enter together, c1 is the one whose method comes first in the class
WriterNext ==
    \/ calls["c2"].pc = "idle" /\ CallWriter("c1")
    \/ /\ JustEntered("c1")
       /\ CallWriter("c2")
       /\ MethodOrder(calls'["c2"].top) >= MethodOrder(calls["c1"].top)
    \/ \E c \in Callers : WriterStep(c)
    \/ Quiescent /\ Tick
    \/ Quiescent /\ ClearLogs

\* the engine starts without a record for the services the callers name:
\* every record of theirs is created by getCircuitBreaker
LazyInit ==
    /\ Init
    /\ \A s \in Services : RowsOf(circuitBreakers, s) = {}

WriterSpec == LazyInit /\ [][WriterNext]_vars

\* A timeout period passes while the clock of the model is in its last
\* period.  canExecute reads a date only in Date.now() - lastFailure and no
\* branch reads the failureCount of a record that is not CLOSED, so the
\* instants are renumbered one period back (a date older than a period
\* stays older than a period) and such a count is renumbered below
\* MaxFailures.
PeriodPasses ==
    /\ now >= MaxPeriods * DefaultTimeout
    /\ circuitBreakers' =
          [i \in DOMAIN circuitBreakers |->
              LET cb == circuitBreakers[i] IN
              IF cb.serviceName \notin Services
              THEN cb
              ELSE [cb EXCEPT
                      !.lastFailure =
                          IF @ = NoDate \/ @ < DefaultTimeout
                          THEN IF @ = NoDate THEN NoDate ELSE 0
                          ELSE @ - DefaultTimeout,
                      !.failureCount =
                          IF cb.state # "CLOSED" /\ @ >= MaxFailures
                          THEN MaxFailures - 1
                          ELSE @]]
    /\ consecutiveFailures' =
          [s \in Services |->
              IF consecutiveFailures[s] >= MaxFailures
              THEN MaxFailures - 1
              ELSE consecutiveFailures[s]]
    /\ UNCHANGED <<logs, now, calls, platformVars>>

\* one step of a canExecute or recordFailure call
RecoveryStep(c) ==
    \/ GetCircuitBreakerSelect(c)
    \/ GetCircuitBreakerCreate(c)
    \/ RecordFailureUpdate(c)
    \/ RecordFailureLog(c)
    \/ CanExecuteSwitch(c)
    \/ CanExecuteLog(c)
    \/ Complete(c)

\* a caller asks whether it may call the service
InvokeCanExecute == \E s \in Services : CallCanExecute("c1", s)

\* the load and failure simulators report a failure
InvokeRecordFailure == \E s \in Services : CallRecordFailure("c1", s)

\* time advances
TimeAdvances == Tick \/ (Quiescent /\ PeriodPasses)

\* permission checks and failure reports, one after another, for ever
RecoveryNext ==
    \/ InvokeCanExecute
    \/ InvokeRecordFailure
    \/ RecoveryStep("c1")
    \/ TimeAdvances
    \/ Quiescent /\ ClearLogs

\* a call in progress runs on, time keeps advancing, canExecute keeps being
\* invoked and the logs table keeps being cleared
RecoverySpec ==
    /\ Init
    /\ [][RecoveryNext]_vars
    /\ WF_vars(RecoveryStep("c1"))
    /\ SF_vars(TimeAdvances)
    /\ SF_vars(InvokeCanExecute)
    /\ SF_vars(Quiescent /\ ClearLogs)

\* ======================================================= service registry
\* ServiceRegistry: scaleUp, scaleDown and autoScale over the services table

\* the service names a scaling request may carry: the services of the
\* callers and one name that has no row
RegistryNames == Services \cup {"search-service"}

\* a platform caller entering the operation `top`
EnterTask(top, op, pc, serviceName) ==
    [IdleTask EXCEPT !.top = top, !.op = op, !.pc = pc,
                     !.serviceName = serviceName, !.before = services]

\* what autoScale does with a row of the list it read
ScaleDecision(service) ==
    IF service.status # "healthy" THEN "none"
    ELSE IF service.load > 75 /\ service.instanceCount < 5 THEN "scaleUp"
    ELSE IF service.load < 25 /\ service.instanceCount > 1 THEN "scaleDown"
    ELSE "none"

\* the for loop of autoScale from its next row on: rows that need no
\* scaling are passed over, the first that does starts scaleUp or
\* scaleDown, and after the last row autoScale returns
RECURSIVE AutoScaleAdvance(_)
AutoScaleAdvance(p) ==
    IF p.todo = <<>>
    THEN [p EXCEPT !.op = "autoScale", !.pc = "done", !.outcome = Return("")]
    ELSE LET service == Head(p.todo) IN
         IF ScaleDecision(service) = "none"
         THEN AutoScaleAdvance([p EXCEPT !.todo = Tail(p.todo)])
         ELSE [p EXCEPT !.op = ScaleDecision(service),
                        !.serviceName = service.name,
                        !.todo = Tail(p.todo),
                        !.pc = "get"]

\* scaleUp or scaleDown returns: to the loop of autoScale, or to the caller
TaskReturns(p) ==
    IF p.top = "autoScale"
    THEN AutoScaleAdvance(p)
    ELSE [p EXCEPT !.pc = "done", !.outcome = Return("")]

\* scaleUp or scaleDown throws; autoScale does not catch
TaskThrows(p, message) ==
    [p EXCEPT !.pc = "done", !.outcome = Throw(message)]

\* POST /api/services/:serviceName/scale-up
CallScaleUp(t, s) ==
    /\ tasks[t].pc = "idle"
    /\ ~LogsFull
    /\ \A i \in ServiceRowsOf(services, s) :
          services[i].instanceCount < MaxInstances
    /\ tasks' = [tasks EXCEPT ![t] = EnterTask("scaleUp", "scaleUp", "get", s)]
    /\ UNCHANGED <<circuitBreakers, logs, now, calls, consecutiveFailures,
                   services, offRegistry>>

\* POST /api/services/:serviceName/scale-down
CallScaleDown(t, s) ==
    /\ tasks[t].pc = "idle"
    /\ ~LogsFull
    /\ tasks' = [tasks EXCEPT ![t] =
                    EnterTask("scaleDown", "scaleDown", "get", s)]
    /\ UNCHANGED <<circuitBreakers, logs, now, calls, consecutiveFailures,
                   services, offRegistry>>

\* the interval of startAutoScaling calls autoScale
CallAutoScale(t) ==
    /\ tasks[t].pc = "idle"
    /\ ~LogsFull
    /\ tasks' = [tasks EXCEPT ![t] = EnterTask("autoScale", "autoScale", "list", "")]
    /\ UNCHANGED <<circuitBreakers, logs, now, calls, consecutiveFailures,
                   services, offRegistry>>

\* const services = await storage.getAllServices(), and the loop up to
\* its first scaling call
AutoScaleList(t) ==
    LET p == tasks[t] IN
    /\ p.op = "autoScale"
    /\ p.pc = "list"
    /\ tasks' = [tasks EXCEPT ![t] = AutoScaleAdvance([p EXCEPT !.todo = services])]
    /\ UNCHANGED <<circuitBreakers, logs, now, calls, consecutiveFailures,
                   services, offRegistry>>

\* const service = await storage.getServiceByName(serviceName), and the
\* two checks that throw
ScaleGet(t) ==
    LET p == tasks[t] IN
    /\ p.op \in {"scaleUp", "scaleDown"}
    /\ p.pc = "get"
    /\ IF ServiceRowsOf(services, p.serviceName) = {}
       THEN tasks' = [tasks EXCEPT ![t] = TaskThrows(p, "Service not found")]
       ELSE \E i \in ServiceRowsOf(services, p.serviceName) :
               tasks' = [tasks EXCEPT ![t] =
                  IF p.op = "scaleDown" /\ services[i].instanceCount <= 1
                  THEN TaskThrows(p, "Cannot scale down below 1 instance")
                  ELSE [p EXCEPT !.service = <<services[i]>>, !.pc = "update"]]
    /\ UNCHANGED <<circuitBreakers, logs, now, calls, consecutiveFailures,
                   services, offRegistry>>

\* the columns scaleUp and scaleDown write for the row they read
ScaleUpdates(op, service) ==
    IF op = "scaleUp"
    THEN [instanceCount |-> service.instanceCount + 1,
          load |-> IF service.load - 20 > 0 THEN service.load - 20 ELSE 0]
    ELSE [instanceCount |-> service.instanceCount - 1,
          load |-> IF service.load + 20 < 100 THEN service.load + 20 ELSE 100]

\* await storage.updateService(service.id, {instanceCount, load})
ScaleUpdate(t) ==
    LET p == tasks[t] IN
    /\ p.op \in {"scaleUp", "scaleDown"}
    /\ p.pc = "update"
    /\ services' \in
          ScanOrders(UpdateService(services, p.service[1].id,
                                   ScaleUpdates(p.op, p.service[1]), now),
                     p.service[1].id)
    /\ tasks' = [tasks EXCEPT ![t] =
                    [p EXCEPT !.pc = "log",
                              !.wrote = Append(p.wrote,
                                               ScaleUpdates(p.op, p.service[1]))]]
    /\ UNCHANGED <<circuitBreakers, logs, now, calls, consecutiveFailures,
                   offRegistry>>

\* await storage.createLog({level: "info", source: "orchestrator", ...})
ScaleLog(t) ==
    LET p == tasks[t] IN
    /\ p.op \in {"scaleUp", "scaleDown"}
    /\ p.pc = "log"
    /\ logs' = CreateLog(logs, "info", "orchestrator",
                         IF p.op = "scaleUp" THEN "Auto-scaled" ELSE "Scaled down")
    /\ tasks' = [tasks EXCEPT ![t] = TaskReturns(p)]
    /\ UNCHANGED <<circuitBreakers, now, calls, consecutiveFailures, services,
                   offRegistry>>

\* the caller takes the result of its platform call
CompleteTask(t) ==
    /\ tasks[t].pc = "done"
    /\ tasks' = [tasks EXCEPT ![t] = IdleTask]
    /\ UNCHANGED <<circuitBreakers, logs, now, calls, consecutiveFailures,
                   services, offRegistry>>

\* one step of a scaling call in progress
ScalingStep(t) ==
    \/ AutoScaleList(t)
    \/ ScaleGet(t)
    \/ ScaleUpdate(t)
    \/ ScaleLog(t)
    \/ CompleteTask(t)

\* the loads a service starts with
ScalingLoads == {10, 45, 80}

\* the registry holds the service of the callers, with any number of
\* instances manual scaling can have left it with, and the service that
\* is down
ScalingInit ==
    /\ circuitBreakers = <<SeedCircuitBreaker>>
    /\ logs = <<>>
    /\ now = 0
    /\ calls = [c \in Callers |-> Idle]
    /\ consecutiveFailures = [s \in Services |-> 0]
    /\ services \in
          {<<NewService(4, "payment-service", "healthy", n, load), SeedServices[2]>> :
              n \in 1..MaxInstances, load \in ScalingLoads}
    /\ tasks = [t \in TaskCallers |-> IdleTask]
    /\ currentIndex = 0
    /\ selections = <<>>
    /\ loadSimulator = NoLoadTest
    /\ loadTests = <<>>
    /\ activeFailures = <<>>
    /\ metrics = 0
    /\ timers = <<>>

\* scaling requests and the auto-scaling interval; their awaited
\* statements interleave in every order
ScalingNext ==
    \/ \E t \in TaskCallers, s \in RegistryNames : CallScaleUp(t, s)
    \/ \E t \in TaskCallers, s \in RegistryNames : CallScaleDown(t, s)
    \/ \E t \in TaskCallers : CallAutoScale(t)
    \/ \E t \in TaskCallers : ScalingStep(t)
    \/ TasksIdle /\ ClearLogs

ScalingSpec == ScalingInit /\ [][ScalingNext]_vars

\* ========================================================= load balancer
\* LoadBalancer: selectService and updateServiceLoad

\* selectService returns null
NoService == "null"

\* services.filter(service => service.status === "healthy")
HealthyServices(table) == SelectSeq(table, LAMBDA row : row.status = "healthy")

\* healthyServices.reduce((least, current) =>
\*     current.load < least.load ? current : least)
RECURSIVE LeastLoad(_, _)
LeastLoad(least, rest) ==
    IF rest = <<>> THEN least
    ELSE LeastLoad(IF Head(rest).load < least.load THEN Head(rest) ELSE least,
                   Tail(rest))

\* the service the switch of selectService returns
SelectService(algorithm, healthyServices, index) ==
    CASE algorithm = "round-robin" ->
            healthyServices[(index % Len(healthyServices)) + 1]
      [] algorithm = "least-load" ->
            LeastLoad(Head(healthyServices), Tail(healthyServices))
      [] OTHER -> healthyServices[1]

\* a caller asks the balancer for a service
CallSelectService(t, algorithm) ==
    /\ tasks[t].pc = "idle"
    /\ Len(selections) < MaxSelections
    /\ tasks' = [tasks EXCEPT ![t] =
                    [EnterTask("selectService", "selectService", "list", "")
                        EXCEPT !.algorithm = algorithm]]
    /\ UNCHANGED <<circuitBreakers, logs, now, calls, consecutiveFailures,
                   services, balancerVars,
                   offBalancer>>

\* const healthyServices = await this.getHealthyServices(), the test for
\* an empty list and the switch, which run without a further await
SelectServiceList(t) ==
    LET p == tasks[t]
        healthyServices == HealthyServices(services)
        picked == IF healthyServices = <<>> THEN NoService
                  ELSE SelectService(p.algorithm, healthyServices,
                                     currentIndex).name
    IN
    /\ p.op = "selectService"
    /\ p.pc = "list"
    /\ currentIndex' =
          IF healthyServices # <<>> /\ p.algorithm = "round-robin"
          THEN currentIndex + 1
          ELSE currentIndex
    /\ selections' =
          Append(selections,
                 [algorithm |-> p.algorithm,
                  healthy |-> [i \in DOMAIN healthyServices |->
                                  healthyServices[i].name],
                  picked |-> picked])
    /\ tasks' = [tasks EXCEPT ![t] =
                    [p EXCEPT !.pc = "done", !.outcome = Return(picked)]]
    /\ UNCHANGED <<circuitBreakers, logs, now, calls, consecutiveFailures,
                   services, offBalancer>>

\* updateServiceLoads of the load simulator reports a new load
CallUpdateServiceLoad(t, s, load) ==
    /\ tasks[t].pc = "idle"
    /\ ~LogsFull
    /\ tasks' = [tasks EXCEPT ![t] =
                    [EnterTask("updateServiceLoad", "updateServiceLoad", "get", s)
                        EXCEPT !.load = load]]
    /\ UNCHANGED <<circuitBreakers, logs, now, calls, consecutiveFailures,
                   services, balancerVars,
                   offBalancer>>

\* const service = await storage.getServiceByName(serviceName); if (service)
UpdateServiceLoadGet(t) ==
    LET p == tasks[t] IN
    /\ p.op = "updateServiceLoad"
    /\ p.pc = "get"
    /\ IF ServiceRowsOf(services, p.serviceName) = {}
       THEN tasks' = [tasks EXCEPT ![t] =
                         [p EXCEPT !.pc = "done", !.outcome = Return("")]]
       ELSE \E i \in ServiceRowsOf(services, p.serviceName) :
               tasks' = [tasks EXCEPT ![t] =
                            [p EXCEPT !.service = <<services[i]>>,
                                      !.pc = "update"]]
    /\ UNCHANGED <<circuitBreakers, logs, now, calls, consecutiveFailures,
                   services, balancerVars,
                   offBalancer>>

\* await storage.updateService(service.id, { load })
UpdateServiceLoadUpdate(t) ==
    LET p == tasks[t] IN
    /\ p.op = "updateServiceLoad"
    /\ p.pc = "update"
    /\ services' \in
          ScanOrders(UpdateService(services, p.service[1].id,
                                   [load |-> p.load], now),
                     p.service[1].id)
    /\ tasks' = [tasks EXCEPT ![t] =
                    [p EXCEPT !.pc = "log",
                              !.wrote = Append(p.wrote, [load |-> p.load])]]
    /\ UNCHANGED <<circuitBreakers, logs, now, calls, consecutiveFailures,
                   balancerVars, offBalancer>>

\* await storage.createLog({level: "info", source: "load-balancer", ...})
UpdateServiceLoadLog(t) ==
    LET p == tasks[t] IN
    /\ p.op = "updateServiceLoad"
    /\ p.pc = "log"
    /\ logs' = CreateLog(logs, "info", "load-balancer", "Updated load")
    /\ tasks' = [tasks EXCEPT ![t] =
                    [p EXCEPT !.pc = "done", !.outcome = Return("")]]
    /\ UNCHANGED <<circuitBreakers, now, calls, consecutiveFailures, services,
                   balancerVars, offBalancer>>

\* the caller takes the result of its balancer call
CompleteBalancerTask(t) ==
    /\ tasks[t].pc = "done"
    /\ tasks' = [tasks EXCEPT ![t] = IdleTask]
    /\ UNCHANGED <<circuitBreakers, logs, now, calls, consecutiveFailures,
                   services, balancerVars,
                   offBalancer>>

\* one step of a balancer call in progress
BalancerStep(t) ==
    \/ SelectServiceList(t)
    \/ UpdateServiceLoadGet(t)
    \/ UpdateServiceLoadUpdate(t)
    \/ UpdateServiceLoadLog(t)
    \/ CompleteBalancerTask(t)

\* the algorithms a caller may ask for
Algorithms == {"round-robin", "least-load"}

\* the loads reported during a load test
BalancerLoads == {30}

\* three of the rows initializeData inserts, each up or down as the
\* health checks have left it
BalancerInit ==
    /\ circuitBreakers = <<SeedCircuitBreaker>>
    /\ logs = <<>>
    /\ now = 0
    /\ calls = [c \in Callers |-> Idle]
    /\ consecutiveFailures = [s \in Services |-> 0]
    /\ services \in
          {<<NewService(4, "payment-service", a, 2, 45),
             NewService(5, "user-service", b, 2, 67),
             NewService(6, "external-api", c, 1, 0)>> :
              a \in {"healthy", "unhealthy"}, b \in {"healthy", "unhealthy"},
              c \in {"healthy", "unhealthy"}}
    /\ tasks = [t \in TaskCallers |-> IdleTask]
    /\ currentIndex = 0
    /\ selections = <<>>
    /\ loadSimulator = NoLoadTest
    /\ loadTests = <<>>
    /\ activeFailures = <<>>
    /\ metrics = 0
    /\ timers = <<>>

\* selections by t1 and load reports by t2; their awaited statements
\* interleave
BalancerNext ==
    \/ \E algorithm \in Algorithms : CallSelectService("t1", algorithm)
    \/ \E s \in RegistryNames, load \in BalancerLoads :
          CallUpdateServiceLoad("t2", s, load)
    \/ \E t \in TaskCallers : BalancerStep(t)
    \/ TasksIdle /\ ClearLogs

BalancerSpec == BalancerInit /\ [][BalancerNext]_vars

\* ======================================================== load simulator
\* LoadSimulator: startLoadTest, stopLoadTest and the duration timer

\* the handle setInterval or setTimeout returns: callback is the function
\* it calls, owner the row the caller was working for, due the time a
\* timeout fires, live whether it is neither cleared nor fired; stopped is
\* history: stopAllSimulations has completed since the timer was set
NewTimer(kind, callback, owner, due) ==
    [kind |-> kind, callback |-> callback, owner |-> owner, due |-> due,
     live |-> TRUE, stopped |-> FALSE]

\* clearInterval / clearTimeout of the handles hs
ClearTimers(table, hs) ==
    [h \in DOMAIN table |->
        IF h \in hs THEN [table[h] EXCEPT !.live = FALSE] ELSE table[h]]

\* the platform state the load simulator does not touch
offLoadTest == <<services, balancerVars, simulatorVars>>

\* POST /api/load-test/start: startLoadTest up to its first await; it
\* throws if (this.isRunning)
CallStartLoadTest(t, duration) ==
    /\ tasks[t].pc = "idle"
    /\ ~LogsFull
    /\ Len(loadTests) < MaxLoadTests
    /\ tasks' = [tasks EXCEPT ![t] =
          IF loadSimulator.isRunning
          THEN [EnterTask("startLoadTest", "startLoadTest", "done", "")
                   EXCEPT !.outcome = Throw("Load test is already running")]
          ELSE [EnterTask("startLoadTest", "startLoadTest", "create", "")
                   EXCEPT !.duration = duration]]
    /\ UNCHANGED <<circuitBreakers, logs, now, calls, consecutiveFailures,
                   loadTestVars, timers, offLoadTest>>

\* const loadTest = await storage.createLoadTest({status: "running", ...})
StartLoadTestCreate(t) ==
    LET p == tasks[t] IN
    /\ p.op = "startLoadTest"
    /\ p.pc = "create"
    /\ loadTests' = Append(loadTests, [status |-> "running"])
    /\ tasks' = [tasks EXCEPT ![t] =
                    [p EXCEPT !.test = Len(loadTests) + 1, !.pc = "start",
                              !.wrote = Append(p.wrote, "loadTest")]]
    /\ UNCHANGED <<circuitBreakers, logs, now, calls, consecutiveFailures,
                   loadSimulator, timers, offLoadTest>>

\* await storage.updateLoadTest(loadTest.id, {startTime: new Date()});
\* this.currentTest = loadTest; this.isRunning = true
StartLoadTestStart(t) ==
    LET p == tasks[t] IN
    /\ p.op = "startLoadTest"
    /\ p.pc = "start"
    /\ loadSimulator' = [loadSimulator EXCEPT !.currentTest = p.test,
                                              !.isRunning = TRUE]
    /\ tasks' = [tasks EXCEPT ![t] = [p EXCEPT !.pc = "log"]]
    /\ UNCHANGED <<circuitBreakers, logs, now, calls, consecutiveFailures,
                   loadTests, timers, offLoadTest>>

\* await storage.createLog(...), then the request interval, the duration
\* timeout and the load update interval are set; the two intervals are
\* pushed on this.intervals
StartLoadTestLog(t) ==
    LET p == tasks[t]
        n == Len(timers)
    IN
    /\ p.op = "startLoadTest"
    /\ p.pc = "log"
    /\ logs' = CreateLog(logs, "info", "load-simulator", "Started load test")
    /\ timers' = timers \o
          <<NewTimer("interval", "simulateRequest", p.test, 0),
            NewTimer("timeout", "stopLoadTest", p.test, now + p.duration * 1000),
            NewTimer("interval", "updateServiceLoads", p.test, 0)>>
    /\ loadSimulator' =
          [loadSimulator EXCEPT !.intervals = @ \cup {n + 1, n + 3}]
    /\ tasks' = [tasks EXCEPT ![t] =
                    [p EXCEPT !.pc = "done", !.outcome = Return(""),
                              !.wrote = Append(p.wrote, "timers")]]
    /\ UNCHANGED <<circuitBreakers, now, calls, consecutiveFailures, loadTests,
                   offLoadTest>>

\* stopLoadTest up to its first await, called for the timer `timer` (0: by
\* a request): it returns if no test is running; otherwise it clears
\* isRunning and the intervals and passes this.currentTest.id to
\* updateLoadTest
StopLoadTestEnter(t, timer) ==
    /\ tasks[t].pc = "idle"
    /\ ~LogsFull
    /\ IF ~loadSimulator.isRunning \/ loadSimulator.currentTest = 0
       THEN /\ tasks' = [tasks EXCEPT ![t] =
                   [EnterTask("stopLoadTest", "stopLoadTest", "done", "")
                       EXCEPT !.timer = timer, !.outcome = Return("")]]
            /\ timers' = ClearTimers(timers, {timer})
            /\ UNCHANGED loadSimulator
       ELSE /\ tasks' = [tasks EXCEPT ![t] =
                   [EnterTask("stopLoadTest", "stopLoadTest", "complete", "")
                       EXCEPT !.timer = timer,
                              !.test = loadSimulator.currentTest]]
            /\ timers' = ClearTimers(timers, loadSimulator.intervals \cup {timer})
            /\ loadSimulator' = [loadSimulator EXCEPT !.isRunning = FALSE,
                                                      !.intervals = {}]
    /\ UNCHANGED <<circuitBreakers, logs, now, calls, consecutiveFailures,
                   loadTests, offLoadTest>>

\* POST /api/load-test/stop
CallStopLoadTest(t) == StopLoadTestEnter(t, 0)

\* the timeout startLoadTest set fires: await this.stopLoadTest()
DurationTimerFires(t) ==
    \E h \in DOMAIN timers :
        /\ timers[h].callback = "stopLoadTest"
        /\ timers[h].live
        /\ now >= timers[h].due
        /\ StopLoadTestEnter(t, h)

\* await storage.updateLoadTest(id, {status: "completed", endTime}); the
\* arguments of createLog then read this.currentTest, a TypeError if it
\* is null
StopLoadTestComplete(t) ==
    LET p == tasks[t] IN
    /\ p.op = "stopLoadTest"
    /\ p.pc = "complete"
    /\ loadTests' = [loadTests EXCEPT ![p.test].status = "completed"]
    /\ tasks' = [tasks EXCEPT ![t] =
          IF loadSimulator.currentTest = 0
          THEN [p EXCEPT !.pc = "done", !.outcome = Throw("TypeError")]
          ELSE [p EXCEPT !.pc = "log"]]
    /\ UNCHANGED <<circuitBreakers, logs, now, calls, consecutiveFailures,
                   loadSimulator, timers, offLoadTest>>

\* await storage.createLog(...); this.currentTest = null
StopLoadTestLog(t) ==
    LET p == tasks[t] IN
    /\ p.op = "stopLoadTest"
    /\ p.pc = "log"
    /\ logs' = CreateLog(logs, "info", "load-simulator", "Load test completed")
    /\ loadSimulator' = [loadSimulator EXCEPT !.currentTest = 0]
    /\ tasks' = [tasks EXCEPT ![t] =
                    [p EXCEPT !.pc = "done", !.outcome = Return("")]]
    /\ UNCHANGED <<circuitBreakers, now, calls, consecutiveFailures, loadTests,
                   timers, offLoadTest>>

\* the caller takes the result of its load test call
CompleteLoadTestTask(t) ==
    /\ tasks[t].pc = "done"
    /\ tasks' = [tasks EXCEPT ![t] = IdleTask]
    /\ UNCHANGED <<circuitBreakers, logs, now, calls, consecutiveFailures,
                   loadTestVars, timers, offLoadTest>>

\* one step of a load test call in progress
LoadTestStep(t) ==
    \/ StartLoadTestCreate(t)
    \/ StartLoadTestStart(t)
    \/ StartLoadTestLog(t)
    \/ StopLoadTestComplete(t)
    \/ StopLoadTestLog(t)
    \/ CompleteLoadTestTask(t)

\* the duration a request asks for, in seconds: the default of the route
Durations == {60}

\* start and stop requests and the duration timers; the callbacks of the
\* two intervals are not part of this specification
LoadTestNext ==
    \/ \E t \in TaskCallers, duration \in Durations :
          CallStartLoadTest(t, duration)
    \/ \E t \in TaskCallers : CallStopLoadTest(t)
    \/ \E t \in TaskCallers : DurationTimerFires(t)
    \/ \E t \in TaskCallers : LoadTestStep(t)
    \/ TasksIdle /\ Tick
    \/ TasksIdle /\ ClearLogs

LoadTestSpec == Init /\ [][LoadTestNext]_vars

\* the same with one thing at a time: a request by t1 or a timer callback
\* run by t2 starts only when no call is in progress
SequentialLoadTestNext ==
    \/ TasksIdle /\ \E duration \in Durations : CallStartLoadTest("t1", duration)
    \/ TasksIdle /\ CallStopLoadTest("t1")
    \/ TasksIdle /\ DurationTimerFires("t2")
    \/ \E t \in TaskCallers : LoadTestStep(t)
    \/ TasksIdle /\ Tick
    \/ TasksIdle /\ ClearLogs

SequentialLoadTestSpec == Init /\ [][SequentialLoadTestNext]_vars

\* ===================================================== failure simulator
\* FailureSimulator: simulateServiceFailure, its interval and its timeout,
\* and stopAllSimulations

\* the platform state the failure simulator does not touch
offSimulator == <<balancerVars, loadTestVars>>

\* the key of a service failure simulation in activeFailures
FailureKey(targetService) == targetService \o "-failure"

\* the handle of the interval that simulateServiceFailure set together
\* with the timeout `timer`: the interval is set right before it
IntervalOf(timer) == timer - 1

\* activeFailures.set(key, timer)
SetActiveFailure(map, key, timer) ==
    [k \in DOMAIN map \cup {key} |-> IF k = key THEN timer ELSE map[k]]

\* activeFailures.delete(key)
DeleteActiveFailure(map, key) == [k \in DOMAIN map \ {key} |-> map[k]]

\* POST /api/simulate/service-failure
CallSimulateServiceFailure(t, s, duration) ==
    /\ tasks[t].pc = "idle"
    /\ ~LogsFull
    /\ Cardinality({h \in DOMAIN timers :
                       timers[h].callback = "failureInterval"}) < MaxSimulations
    /\ tasks' = [tasks EXCEPT ![t] =
                    [EnterTask("simulateServiceFailure", "simulateServiceFailure",
                               "get", s)
                        EXCEPT !.duration = duration]]
    /\ UNCHANGED <<circuitBreakers, logs, now, calls, consecutiveFailures,
                   services, simulatorVars, timers, offSimulator>>

\* const service = await storage.getServiceByName(targetService); if (service)
SimulateServiceFailureGet(t) ==
    LET p == tasks[t] IN
    /\ p.op = "simulateServiceFailure"
    /\ p.pc = "get"
    /\ IF ServiceRowsOf(services, p.serviceName) = {}
       THEN tasks' = [tasks EXCEPT ![t] =
                         [p EXCEPT !.pc = "done", !.outcome = Return("")]]
       ELSE \E i \in ServiceRowsOf(services, p.serviceName) :
               tasks' = [tasks EXCEPT ![t] =
                            [p EXCEPT !.service = <<services[i]>>,
                                      !.pc = "update"]]
    /\ UNCHANGED <<circuitBreakers, logs, now, calls, consecutiveFailures,
                   services, simulatorVars, timers, offSimulator>>

\* await storage.updateService(service.id, {status: "unhealthy", load: 0})
SimulateServiceFailureUpdate(t) ==
    LET p == tasks[t] IN
    /\ p.op = "simulateServiceFailure"
    /\ p.pc = "update"
    /\ services' \in
          ScanOrders(UpdateService(services, p.service[1].id,
                                   [status |-> "unhealthy", load |-> 0], now),
                     p.service[1].id)
    /\ tasks' = [tasks EXCEPT ![t] = [p EXCEPT !.pc = "log"]]
    /\ UNCHANGED <<circuitBreakers, logs, now, calls, consecutiveFailures,
                   simulatorVars, timers, offSimulator>>

\* await storage.createLog({level: "error", ...}); then the failure
\* interval is set and the timeout that ends the simulation is stored in
\* activeFailures
SimulateServiceFailureLog(t) ==
    LET p == tasks[t] IN
    /\ p.op = "simulateServiceFailure"
    /\ p.pc = "log"
    /\ logs' = CreateLog(logs, "error", "failure-simulator",
                         "Simulating complete failure")
    /\ timers' = timers \o
          <<NewTimer("interval", "failureInterval", p.serviceName, 0),
            NewTimer("timeout", "failureEnd", p.serviceName, now + p.duration)>>
    /\ activeFailures' =
          SetActiveFailure(activeFailures, FailureKey(p.serviceName),
                           Len(timers) + 2)
    /\ tasks' = [tasks EXCEPT ![t] =
                    [p EXCEPT !.pc = "done", !.outcome = Return("")]]
    /\ UNCHANGED <<circuitBreakers, now, calls, consecutiveFailures, services,
                   metrics, offSimulator>>

\* the failure interval fires; its callback starts with createMetric
FailureIntervalFires(t) ==
    \E h \in DOMAIN timers :
        /\ timers[h].callback = "failureInterval"
        /\ timers[h].live
        /\ tasks[t].pc = "idle"
        /\ metrics < MaxMetrics
        /\ tasks' = [tasks EXCEPT ![t] =
              [EnterTask("failureInterval", "failureInterval", "metric",
                         timers[h].owner)
                  EXCEPT !.timer = h, !.afterStop = timers[h].stopped]]
        /\ UNCHANGED <<circuitBreakers, logs, now, calls, consecutiveFailures,
                       services, simulatorVars, timers, offSimulator>>

\* await storage.createMetric({..., errorCount: 1, ...})
FailureIntervalMetric(t) ==
    LET p == tasks[t] IN
    /\ p.op = "failureInterval"
    /\ p.pc = "metric"
    /\ metrics' = metrics + 1
    /\ tasks' = [tasks EXCEPT ![t] = [p EXCEPT !.pc = "record"]]
    /\ UNCHANGED <<circuitBreakers, logs, now, calls, consecutiveFailures,
                   services, activeFailures, timers, offSimulator>>

\* await circuitBreakerService.recordFailure(targetService): the engine
\* call is made as caller c; nothing follows it in the callback
FailureIntervalRecord(t, c) ==
    LET p == tasks[t] IN
    /\ p.op = "failureInterval"
    /\ p.pc = "record"
    /\ calls[c].pc = "idle"
    /\ calls' = [calls EXCEPT ![c] =
                    Enter("recordFailure", "recordFailure", "get",
                          p.serviceName, FALSE)]
    /\ tasks' = [tasks EXCEPT ![t] =
                    [p EXCEPT !.pc = "done", !.outcome = Return("")]]
    /\ UNCHANGED <<circuitBreakers, logs, now, consecutiveFailures, services,
                   simulatorVars, timers, offSimulator>>

\* the timeout of a simulation fires: clearInterval(failureInterval);
\* this.activeFailures.delete(key)
FailureEndFires(t) ==
    \E h \in DOMAIN timers :
        /\ timers[h].callback = "failureEnd"
        /\ timers[h].live
        /\ now >= timers[h].due
        /\ tasks[t].pc = "idle"
        /\ ~LogsFull
        /\ timers' = ClearTimers(timers, {h, IntervalOf(h)})
        /\ activeFailures' =
              DeleteActiveFailure(activeFailures, FailureKey(timers[h].owner))
        /\ tasks' = [tasks EXCEPT ![t] =
              [EnterTask("failureEnd", "failureEnd", "get", timers[h].owner)
                  EXCEPT !.timer = h, !.pc = "restore"]]
        /\ UNCHANGED <<circuitBreakers, logs, now, calls, consecutiveFailures,
                       services, metrics, offSimulator>>

\* await storage.updateService(service.id, {status: "healthy", load: 25})
\* for the row simulateServiceFailure read
FailureEndRestore(t) ==
    LET p == tasks[t] IN
    /\ p.op = "failureEnd"
    /\ p.pc = "restore"
    /\ \E i \in ServiceRowsOf(services, p.serviceName) :
          services' \in
             ScanOrders(UpdateService(services, services[i].id,
                                      [status |-> "healthy", load |-> 25], now),
                        services[i].id)
    /\ tasks' = [tasks EXCEPT ![t] = [p EXCEPT !.pc = "log"]]
    /\ UNCHANGED <<circuitBreakers, logs, now, calls, consecutiveFailures,
                   simulatorVars, timers, offSimulator>>

\* await storage.createLog({level: "info", ...}) of the timeout callback
FailureEndLog(t) ==
    LET p == tasks[t] IN
    /\ p.op = "failureEnd"
    /\ p.pc = "log"
    /\ logs' = CreateLog(logs, "info", "failure-simulator",
                         "Service failure simulation ended")
    /\ tasks' = [tasks EXCEPT ![t] =
                    [p EXCEPT !.pc = "done", !.outcome = Return("")]]
    /\ UNCHANGED <<circuitBreakers, now, calls, consecutiveFailures, services,
                   simulatorVars, timers, offSimulator>>

\* POST /api/simulate/stop-all: stopAllSimulations up to its await:
\* clearTimeout for every value of activeFailures; activeFailures.clear()
CallStopAllSimulations(t) ==
    /\ tasks[t].pc = "idle"
    /\ ~LogsFull
    /\ timers' = ClearTimers(timers,
                             {activeFailures[k] : k \in DOMAIN activeFailures})
    /\ activeFailures' = <<>>
    /\ tasks' = [tasks EXCEPT ![t] =
                    EnterTask("stopAllSimulations", "stopAllSimulations", "log", "")]
    /\ UNCHANGED <<circuitBreakers, logs, now, calls, consecutiveFailures,
                   services, metrics, offSimulator>>

\* await storage.createLog({... "All failure simulations stopped" ...});
\* stopAllSimulations is complete, which every timer set so far remembers
StopAllSimulationsLog(t) ==
    LET p == tasks[t] IN
    /\ p.op = "stopAllSimulations"
    /\ p.pc = "log"
    /\ logs' = CreateLog(logs, "info", "failure-simulator",
                         "All failure simulations stopped")
    /\ timers' = [h \in DOMAIN timers |-> [timers[h] EXCEPT !.stopped = TRUE]]
    /\ tasks' = [tasks EXCEPT ![t] =
                    [p EXCEPT !.pc = "done", !.outcome = Return("")]]
    /\ UNCHANGED <<circuitBreakers, now, calls, consecutiveFailures, services,
                   simulatorVars, offSimulator>>

\* the caller takes the result of its simulator call
CompleteSimulatorTask(t) ==
    /\ tasks[t].pc = "done"
    /\ tasks' = [tasks EXCEPT ![t] = IdleTask]
    /\ UNCHANGED <<circuitBreakers, logs, now, calls, consecutiveFailures,
                   services, simulatorVars, timers, offSimulator>>

\* one step of a simulator call or callback in progress
SimulatorStep(t) ==
    \/ SimulateServiceFailureGet(t)
    \/ SimulateServiceFailureUpdate(t)
    \/ SimulateServiceFailureLog(t)
    \/ FailureIntervalMetric(t)
    \/ FailureIntervalRecord(t, "c1")
    \/ FailureEndRestore(t)
    \/ FailureEndLog(t)
    \/ StopAllSimulationsLog(t)
    \/ CompleteSimulatorTask(t)

\* the duration a request asks for, in milliseconds: the default
SimulationDurations == {60000}

\* requests by t1, timer callbacks run by t2, and the recordFailure calls
\* the callbacks make as engine caller c1
SimulatorNext ==
    \/ \E s \in RegistryNames, duration \in SimulationDurations :
          CallSimulateServiceFailure("t1", s, duration)
    \/ CallStopAllSimulations("t1")
    \/ FailureIntervalFires("t2")
    \/ FailureEndFires("t2")
    \/ \E t \in TaskCallers : SimulatorStep(t)
    \/ FailureStep("c1")
    \/ TasksIdle /\ Quiescent /\ Tick
    \/ TasksIdle /\ Quiescent /\ ClearLogs

SimulatorSpec == Init /\ [][SimulatorNext]_vars

\* ================================================================ properties

\* caller c holds the result of its call of the engine method top
Finished(c, top) == calls[c].pc = "done" /\ calls[c].top = top

\* the engine method m is the last thing that ran in caller c's call
Applied(c, m) ==
    /\ calls[c].pc \in {"done", "failed", "admission"}
    /\ calls[c].trace # <<>>
    /\ calls[c].trace[Len(calls[c].trace)] = m

\* the errors the operation may raise
OperationErrors == {o.error : o \in {x \in OperationOutcomes : x.kind = "throw"}}

\* C1: a record that started CLOSED with failureCount 0 and threshold N is
\* CLOSED with failureCount k after k < N recordFailure calls in a row, and
\* OPEN with failureCount N when the N-th of them returns.
C1_ThresholdTrips ==
    \A i \in DOMAIN circuitBreakers :
        LET r == circuitBreakers[i] IN
        r.serviceName \in Services =>
            LET k == consecutiveFailures[r.serviceName] IN
            /\ k < r.failureThreshold =>
                  r.state = "CLOSED" /\ r.failureCount = k
            /\ ( /\ k = r.failureThreshold
                 /\ \E c \in Callers : /\ Applied(c, "recordFailure")
                                       /\ calls[c].serviceName = r.serviceName )
               => r.state = "OPEN" /\ r.failureCount = k

C1_Witness ==
    \E c \in Callers : \E i \in RowsOf(circuitBreakers, calls[c].serviceName) :
        /\ Finished(c, "recordFailure")
        /\ circuitBreakers[i].failureThreshold > 1
        /\ consecutiveFailures[calls[c].serviceName] =
              circuitBreakers[i].failureThreshold
        /\ circuitBreakers[i].state = "OPEN"

\* C2: canExecute on a record that is OPEN with lastFailure t returns false
\* and writes nothing while Date.now() - t < timeout, and from
\* Date.now() - t >= timeout on it returns true with the stored state
\* already HALF_OPEN.
C2_CanExecuteHonoursTimeout ==
    \A c \in Callers :
        LET p == calls[c] IN
        Finished(c, "canExecute") =>
            \A i \in RowsOf(p.before, p.serviceName) :
                LET b == p.before[i] IN
                (b.state = "OPEN" /\ b.lastFailure # NoDate) =>
                    IF p.timeSinceLastFailure < b.timeout
                    THEN ~p.returned /\ circuitBreakers = p.before
                    ELSE p.returned /\ circuitBreakers[i].state = "HALF_OPEN"

C2_Witness ==
    \E c \in Callers : \E i \in RowsOf(calls[c].before, calls[c].serviceName) :
        /\ Finished(c, "canExecute")
        /\ calls[c].before[i].state = "OPEN"
        /\ calls[c].timeSinceLastFailure = calls[c].before[i].timeout
        /\ calls[c].returned
        /\ circuitBreakers[i].state = "HALF_OPEN"

\* C3: the write of recordSuccess on a HALF_OPEN record leaves it CLOSED with
\* failureCount 0, and every step that takes a record from another state to
\* CLOSED sets its failureCount to 0 in the same step.
C3_ClosingClearsCount ==
    [][ /\ \A i \in DOMAIN circuitBreakers :
              ( /\ circuitBreakers[i].state # "CLOSED"
                /\ circuitBreakers'[i].state = "CLOSED" )
              => circuitBreakers'[i].failureCount = 0
        /\ \A c \in Callers :
              ( /\ calls[c].method = "recordSuccess"
                /\ calls[c].pc = "decide"
                /\ calls'[c] # calls[c] )
              => \A i \in RowsOf(circuitBreakers, calls[c].serviceName) :
                    circuitBreakers[i].state = "HALF_OPEN" =>
                        /\ circuitBreakers'[i].state = "CLOSED"
                        /\ circuitBreakers'[i].failureCount = 0
      ]_vars

C3_Witness ==
    \E c \in Callers : \E i \in RowsOf(circuitBreakers, calls[c].serviceName) :
        /\ Applied(c, "recordSuccess")
        /\ calls[c].circuitBreaker[1].state = "HALF_OPEN"
        /\ calls[c].circuitBreaker[1].failureCount > 0
        /\ circuitBreakers[i].state = "CLOSED"
        /\ circuitBreakers[i].failureCount = 0

\* C4: recordFailure on a HALF_OPEN record with failureCount k leaves it OPEN
\* with failureCount k + 1 and lastFailure the time of this failure.
C4_HalfOpenFailureReopens ==
    \A c \in Callers :
        LET p == calls[c] IN
        (Applied(c, "recordFailure") /\ p.circuitBreaker[1].state = "HALF_OPEN") =>
            \A i \in RowsOf(circuitBreakers, p.serviceName) :
                /\ circuitBreakers[i].state = "OPEN"
                /\ circuitBreakers[i].failureCount =
                      p.circuitBreaker[1].failureCount + 1
                /\ circuitBreakers[i].lastFailure = p.date
                /\ p.date # NoDate
                /\ p.date >= p.circuitBreaker[1].lastFailure
                /\ p.date <= now

C4_Witness ==
    \E c \in Callers : \E i \in RowsOf(circuitBreakers, calls[c].serviceName) :
        /\ Applied(c, "recordFailure")
        /\ calls[c].circuitBreaker[1].state = "HALF_OPEN"
        /\ circuitBreakers[i].state = "OPEN"
        /\ circuitBreakers[i].failureCount > circuitBreakers[i].failureThreshold
        /\ circuitBreakers[i].lastFailure > calls[c].circuitBreaker[1].lastFailure

\* C5: recordSuccess on a CLOSED record with failureCount > 0 changes nothing
\* but failureCount, which becomes 0; a failure recorded on a CLOSED record
\* with failureCount 0 counts as the first.
C5_SuccessResetsCount ==
    \A c \in Callers :
        LET p == calls[c] IN
        /\ ( /\ Applied(c, "recordSuccess")
             /\ p.circuitBreaker[1].state = "CLOSED"
             /\ p.circuitBreaker[1].failureCount > 0 )
           => \A i \in RowsOf(circuitBreakers, p.serviceName) :
                 circuitBreakers[i] = [p.circuitBreaker[1] EXCEPT !.failureCount = 0]
        /\ ( /\ Applied(c, "recordFailure")
             /\ p.circuitBreaker[1].state = "CLOSED"
             /\ p.circuitBreaker[1].failureCount = 0 )
           => \A i \in RowsOf(circuitBreakers, p.serviceName) :
                 circuitBreakers[i].failureCount = 1

C5_Witness ==
    \E c \in Callers : \E i \in RowsOf(circuitBreakers, calls[c].serviceName) :
        /\ Finished(c, "recordSuccess")
        /\ calls[c].circuitBreaker[1].state = "CLOSED"
        /\ calls[c].circuitBreaker[1].failureCount > 0
        /\ circuitBreakers[i].state = "CLOSED"
        /\ circuitBreakers[i].failureCount = 0

\* C6: when resetCircuitBreaker returns, every record the service had when
\* the call began is CLOSED with failureCount 0, whatever it was before.
C6_ResetCloses ==
    \A c \in Callers :
        LET p == calls[c] IN
        Finished(c, "resetCircuitBreaker") =>
            \A i \in RowsOf(p.before, p.serviceName) :
                /\ circuitBreakers[i].state = "CLOSED"
                /\ circuitBreakers[i].failureCount = 0

C6_Witness ==
    \E c \in Callers : \E i \in RowsOf(calls[c].before, calls[c].serviceName) :
        /\ Finished(c, "resetCircuitBreaker")
        /\ calls[c].before[i].state = "OPEN"
        /\ calls[c].before[i].failureCount > 0
        /\ circuitBreakers[i].state = "CLOSED"

\* how often the operation (step "operation") or the fallback ran in a trace
Count(trace, step) == Cardinality({j \in DOMAIN trace : trace[j] = step})

\* C7: executeWithCircuitBreaker with a fallback, on a record that is OPEN
\* and whose timeout has not elapsed, never runs the operation, runs the
\* fallback exactly once, yields what the fallback yields and leaves the
\* circuit_breakers table as it was.
C7_OpenRunsFallbackOnly ==
    \A c \in Callers :
        LET p == calls[c] IN
        (Finished(c, "executeWithCircuitBreaker") /\ p.hasFallback) =>
            \A i \in RowsOf(p.before, p.serviceName) :
                LET b == p.before[i] IN
                ( /\ b.state = "OPEN"
                  /\ b.lastFailure # NoDate
                  /\ p.timeSinceLastFailure < b.timeout )
                => /\ Count(p.trace, "operation") = 0
                   /\ Count(p.trace, "fallback") = 1
                   /\ p.outcome = p.fallbackOutcome
                   /\ p.outcome \in FallbackOutcomes
                   /\ circuitBreakers = p.before

C7_Witness ==
    \E c \in Callers : \E i \in RowsOf(calls[c].before, calls[c].serviceName) :
        /\ Finished(c, "executeWithCircuitBreaker")
        /\ calls[c].hasFallback
        /\ calls[c].before[i].state = "OPEN"
        /\ calls[c].before[i].lastFailure # NoDate
        /\ calls[c].timeSinceLastFailure < calls[c].before[i].timeout
        /\ calls[c].outcome = Return("fallback result")

C9_FailureRecordedThenRethrown ==
    \A c \in Callers :
        LET p == calls[c] IN
        ( /\ Finished(c, "executeWithCircuitBreaker")
          /\ ~p.hasFallback
          /\ p.canExecute
          /\ p.error # "" )
        => /\ p.outcome = Throw(p.error)
           /\ p.error \in OperationErrors
           /\ p.trace = <<"canExecute", "operation", "recordFailure">>
           /\ \A i \in RowsOf(circuitBreakers, p.serviceName) :
                 /\ circuitBreakers[i].failureCount =
                       p.circuitBreaker[1].failureCount + 1
                 /\ circuitBreakers[i].lastFailure = p.date
                 /\ p.date # NoDate

C9_Witness ==
    \E c \in Callers :
        /\ Finished(c, "executeWithCircuitBreaker")
        /\ ~calls[c].hasFallback
        /\ calls[c].canExecute
        /\ calls[c].outcome = Throw("operation failed")
        /\ \E i \in RowsOf(circuitBreakers, calls[c].serviceName) :
              circuitBreakers[i].failureCount > 0

\* C10: executeWithCircuitBreaker with a fallback, admitted, whose operation
\* raised: recordFailure ran, then the fallback ran once, and the call yields
\* exactly what the fallback yielded, its result or its own error.
C10_FailureRecordedThenFallback ==
    \A c \in Callers :
        LET p == calls[c] IN
        ( /\ Finished(c, "executeWithCircuitBreaker")
          /\ p.hasFallback
          /\ p.canExecute
          /\ p.error # "" )
        => /\ p.trace = <<"canExecute", "operation", "recordFailure", "fallback">>
           /\ p.outcome = p.fallbackOutcome
           /\ p.outcome \in FallbackOutcomes
           /\ \A i \in RowsOf(circuitBreakers, p.serviceName) :
                 circuitBreakers[i].failureCount =
                    p.circuitBreaker[1].failureCount + 1

C10_Witness ==
    \E c \in Callers :
        /\ Finished(c, "executeWithCircuitBreaker")
        /\ calls[c].hasFallback
        /\ calls[c].canExecute
        /\ calls[c].error = "operation failed"
        /\ calls[c].outcome = Throw("fallback failed")

\* --------------------------------------------------- storage failures

\* the call of caller c was admitted by canExecute and has ended
AdmittedAndEnded(c) ==
    /\ Finished(c, "executeWithCircuitBreaker")
    /\ Count(calls[c].trace, "canExecute") = 1
    /\ calls[c].canExecute

\* C11: in an admitted execute call that has ended, recordSuccess has run
\* only if the operation returned, recordFailure has run only if the
\* operation raised, never both, and when no storage call failed exactly
\* the one matching the operation's outcome has run.
C11_BookkeepingMatchesOutcome ==
    \A c \in Callers :
        AdmittedAndEnded(c) =>
            LET p == calls[c]
                successes == Count(p.trace, "recordSuccess")
                failures == Count(p.trace, "recordFailure")
            IN  /\ successes > 0 => p.operationOutcome.kind = "return"
                /\ failures > 0 => p.operationOutcome.kind = "throw"
                /\ ~(successes > 0 /\ failures > 0)
                /\ p.faults = <<>> =>
                      /\ successes = 1 <=> p.operationOutcome.kind = "return"
                      /\ failures = 1 <=> p.operationOutcome.kind = "throw"

\* C12: a call during which a storage call failed ends by raising the
\* storage error; in particular an execute call with a fallback whose
\* recordSuccess met the failure does not end with the fallback's outcome.
C12_StorageErrorSurfaces ==
    \A c \in Callers :
        (calls[c].pc = "done" /\ calls[c].faults # <<>>) =>
            calls[c].outcome = Throw(StorageError)

\* ------------------------------------------- the result of recordFailure

\* C13: recordFailure returns true exactly when the record was CLOSED
\* before the call and is CLOSED after it; it returns false when the call
\* opened the breaker, when the record was HALF_OPEN and when it was OPEN.
C13_TrueIffStillClosed ==
    \A c \in Callers :
        Finished(c, "recordFailure") =>
            LET p == calls[c]
                stateBefore == p.circuitBreaker[1].state
                closedAfter ==
                    \A i \in RowsOf(circuitBreakers, p.serviceName) :
                        circuitBreakers[i].state = "CLOSED"
            IN  /\ p.returned <=> (stateBefore = "CLOSED" /\ closedAfter)
                /\ stateBefore \in {"HALF_OPEN", "OPEN"} => ~p.returned

\* ------------------------------------------------------ overlapping calls

LegalChanges ==
    {<<"CLOSED", "OPEN">>, <<"OPEN", "HALF_OPEN">>,
     <<"HALF_OPEN", "CLOSED">>, <<"HALF_OPEN", "OPEN">>}

\* the step is the UPDATE of a resetCircuitBreaker call
ResetWrites ==
    \E c \in Callers :
        /\ calls[c].method = "resetCircuitBreaker"
        /\ calls[c].pc = "update"
        /\ calls'[c].pc = "log"

\* C14: every step that changes the stored state of a record takes it
\* CLOSED -> OPEN, OPEN -> HALF_OPEN, HALF_OPEN -> CLOSED or
\* HALF_OPEN -> OPEN, or is the write to CLOSED of a reset.
C14_OnlyLegalChanges ==
    [][\A i \in DOMAIN circuitBreakers :
          circuitBreakers'[i].state # circuitBreakers[i].state =>
              \/ <<circuitBreakers[i].state, circuitBreakers'[i].state>>
                    \in LegalChanges
              \/ ResetWrites /\ circuitBreakers'[i].state = "CLOSED"]_vars

C16_ConcurrentFailuresCountOnce ==
    \A c, d \in Callers :
        ( /\ c # d
          /\ Finished(c, "recordFailure")
          /\ Finished(d, "recordFailure")
          /\ calls[c].circuitBreaker = calls[d].circuitBreaker )
        => \A i \in RowsOf(circuitBreakers, calls[c].serviceName) :
              circuitBreakers[i].failureCount =
                 calls[c].circuitBreaker[1].failureCount + 1

\* failureThreshold = 2 concurrent failures on a CLOSED record with count 0
\* have completed and the breaker is CLOSED with count 1
C16_Witness ==
    \E c, d \in Callers :
        /\ c # d
        /\ Finished(c, "recordFailure")
        /\ Finished(d, "recordFailure")
        /\ calls[c].circuitBreaker = calls[d].circuitBreaker
        /\ calls[c].circuitBreaker[1].state = "CLOSED"
        /\ calls[c].circuitBreaker[1].failureCount = 0
        /\ calls[c].circuitBreaker[1].failureThreshold = 2
        /\ calls[c].returned /\ calls[d].returned
        /\ \A i \in RowsOf(circuitBreakers, calls[c].serviceName) :
              /\ circuitBreakers[i].state = "CLOSED"
              /\ circuitBreakers[i].failureCount = 1

\* C17: the store holds at most one record per service name.
C17_OneRecordPerService ==
    \A i, j \in DOMAIN circuitBreakers :
        circuitBreakers[i].serviceName = circuitBreakers[j].serviceName => i = j

\* ------------------------------------------------------ getCircuitBreaker

\* the record the claim describes for an unknown service
UnknownServiceRecord(serviceName) ==
    [serviceName |-> serviceName, state |-> "CLOSED", failureCount |-> 0,
     failureThreshold |-> 5, lastFailure |-> NoDate, timeout |-> 60000]

\* C18: getCircuitBreaker returns an existing record and leaves the table as
\* it was; for an unknown service it inserts and returns a record CLOSED,
\* failureCount 0, failureThreshold 5, timeout 60000, no lastFailure, and
\* canExecute, recordSuccess and recordFailure decide on that record.
C18_GetOrCreate ==
    \A c \in Callers :
        LET p == calls[c]
            known == RowsOf(p.before, p.serviceName) # {}
        IN
        /\ Finished(c, "getCircuitBreaker") =>
              IF known
              THEN /\ circuitBreakers = p.before
                   /\ \E i \in RowsOf(p.before, p.serviceName) :
                         p.circuitBreaker = <<p.before[i]>>
              ELSE /\ circuitBreakers =
                         Append(p.before, UnknownServiceRecord(p.serviceName))
                   /\ p.circuitBreaker = <<UnknownServiceRecord(p.serviceName)>>
        /\ ( /\ p.top \in {"canExecute", "recordSuccess", "recordFailure"}
             /\ p.pc = "decide"
             /\ ~known )
            => /\ p.circuitBreaker = <<UnknownServiceRecord(p.serviceName)>>
               /\ circuitBreakers =
                     Append(p.before, UnknownServiceRecord(p.serviceName))

\* a first access has created the record, and a method decides on it
C18_Witness ==
    /\ \E c \in Callers :
          /\ calls[c].top = "recordFailure"
          /\ calls[c].pc = "decide"
          /\ RowsOf(calls[c].before, calls[c].serviceName) = {}
          /\ calls[c].circuitBreaker[1].failureThreshold = 5
    /\ \E i \in DOMAIN circuitBreakers :
          circuitBreakers[i] = UnknownServiceRecord("payment-service")

\* -------------------------------------------------------------- lastFailure

\* the step is the UPDATE of a recordFailure call of caller c
RecordFailureWrites(c) ==
    /\ calls[c].method = "recordFailure"
    /\ calls[c].pc = "decide"
    /\ calls'[c].pc # "decide"

\* C19: the UPDATE of every recordFailure call sets lastFailure of the
\* record to the time of the call, whatever state it read; no other step
\* changes the lastFailure of a row, and a row is inserted without one.
C19_LastFailureOnlyByRecordFailure ==
    [][/\ \A c \in Callers :
             RecordFailureWrites(c) =>
                 \A i \in RowsOf(circuitBreakers', calls[c].serviceName) :
                     circuitBreakers'[i].lastFailure = now
       /\ \A i \in DOMAIN circuitBreakers' :
             IF i \in DOMAIN circuitBreakers
             THEN circuitBreakers'[i].lastFailure # circuitBreakers[i].lastFailure
                     => \E c \in Callers :
                           /\ RecordFailureWrites(c)
                           /\ circuitBreakers[i].serviceName = calls[c].serviceName
             ELSE circuitBreakers'[i].lastFailure = NoDate]_vars

\* a recordFailure call on an OPEN record has moved its lastFailure to the
\* later time of the call
C19_Witness ==
    \E c \in Callers :
        /\ Finished(c, "recordFailure")
        /\ calls[c].circuitBreaker[1].state = "OPEN"
        /\ calls[c].circuitBreaker[1].lastFailure # NoDate
        /\ calls[c].date > calls[c].circuitBreaker[1].lastFailure
        /\ \A i \in RowsOf(circuitBreakers, calls[c].serviceName) :
              /\ circuitBreakers[i].state = "OPEN"
              /\ circuitBreakers[i].lastFailure = calls[c].date

\* ------------------------------------------------------------------ events

\* the rows caller c's call has appended to the logs table
Appended(c) ==
    SubSeq(logs, Len(calls[c].logsBefore) + 1, Len(logs))

\* the stored records of the service caller c names are all in `state`
StoredState(c, state) ==
    \A i \in RowsOf(circuitBreakers, calls[c].serviceName) :
        circuitBreakers[i].state = state

\* C20: recordFailure appends exactly one event when it changes the state,
\* of level error for CLOSED -> OPEN and warn for HALF_OPEN -> OPEN, and
\* none otherwise; recordSuccess appends exactly one info event for
\* HALF_OPEN -> CLOSED and none otherwise.
C20_EventsOnStateChange ==
    \A c \in Callers :
        LET p == calls[c]
            read == p.circuitBreaker[1].state
            events == Appended(c)
        IN
        /\ Finished(c, "recordFailure") =>
              /\ SubSeq(logs, 1, Len(p.logsBefore)) = p.logsBefore
              /\ IF read = "CLOSED" /\ StoredState(c, "OPEN")
                 THEN Len(events) = 1 /\ events[1].level = "error"
                 ELSE IF read = "HALF_OPEN" /\ StoredState(c, "OPEN")
                 THEN Len(events) = 1 /\ events[1].level = "warn"
                 ELSE /\ events = <<>>
                      /\ StoredState(c, read)
        /\ Finished(c, "recordSuccess") =>
              /\ SubSeq(logs, 1, Len(p.logsBefore)) = p.logsBefore
              /\ IF read = "HALF_OPEN" /\ StoredState(c, "CLOSED")
                 THEN Len(events) = 1 /\ events[1].level = "info"
                 ELSE /\ events = <<>>
                      /\ StoredState(c, read)

\* a recordFailure call has reopened a HALF_OPEN breaker and logged a warning
C20_Witness ==
    \E c \in Callers :
        /\ Finished(c, "recordFailure")
        /\ calls[c].circuitBreaker[1].state = "HALF_OPEN"
        /\ StoredState(c, "OPEN")
        /\ Len(Appended(c)) = 1
        /\ Appended(c)[1].level = "warn"

\* ------------------------------------------------------------ lazy recovery

\* the step is the UPDATE of a canExecute call
CanExecuteWrites ==
    \E c \in Callers :
        /\ calls[c].method = "canExecute"
        /\ calls[c].pc = "decide"
        /\ calls'[c].pc = "log"

\* C21: a step in which the clock moves changes no record; a record leaves
\* OPEN only in the UPDATE of a canExecute call, which makes it HALF_OPEN,
\* or in the UPDATE of a reset, which makes it CLOSED.
C21_TimeAloneChangesNothing ==
    [][/\ now' # now => circuitBreakers' = circuitBreakers
       /\ \A i \in DOMAIN circuitBreakers :
             (circuitBreakers[i].state = "OPEN" /\ circuitBreakers'[i].state # "OPEN")
                => \/ CanExecuteWrites /\ circuitBreakers'[i].state = "HALF_OPEN"
                   \/ ResetWrites /\ circuitBreakers'[i].state = "CLOSED"
       /\ \A i \in DOMAIN circuitBreakers :
             (circuitBreakers[i].state # "HALF_OPEN"
                 /\ circuitBreakers'[i].state = "HALF_OPEN")
                => CanExecuteWrites /\ circuitBreakers[i].state = "OPEN"]_vars

\* a record is still OPEN later than its timeout after its last failure,
\* no call being in progress
C21_Witness ==
    /\ Quiescent
    /\ \E i \in RowsOf(circuitBreakers, "payment-service") :
          /\ circuitBreakers[i].state = "OPEN"
          /\ circuitBreakers[i].lastFailure # NoDate
          /\ now - circuitBreakers[i].lastFailure > circuitBreakers[i].timeout

\* ------------------------------------------------------------ auto-recovery

\* a record of the service is OPEN
SomeOpen ==
    \E i \in RowsOf(circuitBreakers, "payment-service") :
        circuitBreakers[i].state = "OPEN"

\* a canExecute call has returned true and no record of the service is OPEN
Recovered ==
    /\ ~SomeOpen
    /\ \E c \in Callers : Finished(c, "canExecute") /\ calls[c].returned

\* C22: when time keeps advancing and canExecute keeps being invoked, an
\* OPEN breaker is eventually left by a canExecute call that returns true,
\* whatever recordFailure calls are made in between.
C22_AutoRecovery == SomeOpen ~> Recovered

\* ----------------------------------------------------------------- metrics

\* the number of stored records in `state`
Stored(state) ==
    Cardinality({i \in DOMAIN circuitBreakers : circuitBreakers[i].state = state})

\* C23: a completed metrics call has changed no record and appended no
\* event, and its output is determined by the stored records alone: the
\* number of records, the number in each state and, per record, its name,
\* state, failureCount, failureThreshold and lastFailure; so two calls
\* over the same records return the same output.
C23_MetricsReadOnly ==
    \A c \in Callers :
        Finished(c, "getCircuitBreakerMetrics") =>
            LET m == calls[c].metrics IN
            /\ circuitBreakers = calls[c].before
            /\ logs = calls[c].logsBefore
            /\ m.total = Len(circuitBreakers)
            /\ m.closed = Stored("CLOSED")
            /\ m.open = Stored("OPEN")
            /\ m.halfOpen = Stored("HALF_OPEN")
            /\ DOMAIN m.circuitBreakers = DOMAIN circuitBreakers
            /\ \A i \in DOMAIN circuitBreakers :
                  /\ DOMAIN m.circuitBreakers[i] =
                        {"serviceName", "state", "failureCount",
                         "failureThreshold", "lastFailure"}
                  /\ \A f \in DOMAIN m.circuitBreakers[i] :
                        m.circuitBreakers[i][f] = circuitBreakers[i][f]

\* a metrics call has reported a probing, an open and no closed breaker
C23_Witness ==
    \E c \in Callers :
        /\ Finished(c, "getCircuitBreakerMetrics")
        /\ calls[c].metrics.total = 2
        /\ calls[c].metrics.halfOpen = 1
        /\ calls[c].metrics.open = 1

\* ---------------------------------------------------------------- resetAll

\* C24: after a completed resetAllCircuitBreakers call every stored record
\* is CLOSED with failureCount 0 and the call has appended one info event
\* per record.
C24_ResetAllClosesAll ==
    \A c \in Callers :
        Finished(c, "resetAllCircuitBreakers") =>
            /\ \A i \in DOMAIN circuitBreakers :
                  /\ circuitBreakers[i].state = "CLOSED"
                  /\ circuitBreakers[i].failureCount = 0
            /\ SubSeq(logs, 1, Len(calls[c].logsBefore)) = calls[c].logsBefore
            /\ Len(Appended(c)) = Len(circuitBreakers)
            /\ \A k \in DOMAIN Appended(c) : Appended(c)[k].level = "info"

\* a resetAll call has closed two records, both OPEN before it
C24_Witness ==
    \E c \in Callers :
        /\ Finished(c, "resetAllCircuitBreakers")
        /\ Len(calls[c].before) = 2
        /\ \A i \in DOMAIN calls[c].before :
              /\ calls[c].before[i].state = "OPEN"
              /\ calls[c].before[i].failureCount > 0

\* ------------------------------------------------------------- no deletion

\* the service names that have a record in `store`
Names(store) == {store[i].serviceName : i \in DOMAIN store}

\* C25: no step removes a record: the set of service names that have a
\* record and the number of records never shrink.
C25_NeverDeletes ==
    [][/\ Names(circuitBreakers) \subseteq Names(circuitBreakers')
       /\ Len(circuitBreakers') >= Len(circuitBreakers)]_vars

\* a call has written to the record of one service and the record of the
\* other service is still there
C25_Witness ==
    \E c \in Callers :
        /\ Finished(c, "recordFailure")
        /\ circuitBreakers # calls[c].before
        /\ Names(circuitBreakers) = {"external-api", "payment-service"}
        /\ Names(calls[c].before) = {"external-api", "payment-service"}

\* C26: a completed reset for a service name that had no record leaves a
\* record for it, CLOSED with failureCount 0, and has appended one info
\* event.
C26_ResetCreates ==
    \A c \in Callers :
        ( /\ Finished(c, "resetCircuitBreaker")
          /\ RowsOf(calls[c].before, calls[c].serviceName) = {} )
        => /\ RowsOf(circuitBreakers, calls[c].serviceName) # {}
           /\ \A i \in RowsOf(circuitBreakers, calls[c].serviceName) :
                 /\ circuitBreakers[i].state = "CLOSED"
                 /\ circuitBreakers[i].failureCount = 0
           /\ Len(Appended(c)) = 1
           /\ Appended(c)[1].level = "info"

\* ------------------------------------------------------ record invariants

\* C27: calls being made one after another, a CLOSED record has fewer
\* failures counted than its threshold.
C27_ClosedBelowThreshold ==
    \A i \in DOMAIN circuitBreakers :
        circuitBreakers[i].state = "CLOSED" =>
            circuitBreakers[i].failureCount < circuitBreakers[i].failureThreshold

\* a lazily created record is CLOSED one failure below its threshold of 5
C27_Witness ==
    \E i \in DOMAIN circuitBreakers :
        /\ circuitBreakers[i].state = "CLOSED"
        /\ circuitBreakers[i].failureThreshold = DefaultFailureThreshold
        /\ circuitBreakers[i].failureCount = DefaultFailureThreshold - 1

\* a caller holds a record it read as OPEN without a lastFailure
ReadsOpenWithoutDate ==
    \E c \in Callers :
        /\ calls[c].circuitBreaker # <<>>
        /\ calls[c].circuitBreaker[1].state = "OPEN"
        /\ calls[c].circuitBreaker[1].lastFailure = NoDate

\* C28: under overlapping calls, a stored record that is OPEN has a
\* lastFailure, and so has every OPEN record a method has read: canExecute
\* never denies for want of a failure date.
C28_OpenHasLastFailure ==
    /\ \A i \in DOMAIN circuitBreakers :
          circuitBreakers[i].state = "OPEN" =>
              circuitBreakers[i].lastFailure # NoDate
    /\ ~ReadsOpenWithoutDate

\* a lazily created record has been opened by the fifth of five failures,
\* reported by a call that overlapped another
C28_Witness ==
    /\ \E i \in RowsOf(circuitBreakers, "payment-service") :
          /\ circuitBreakers[i].state = "OPEN"
          /\ circuitBreakers[i].failureThreshold = DefaultFailureThreshold
          /\ circuitBreakers[i].lastFailure # NoDate
    /\ \A c \in Callers : calls[c].pc = "done"
    /\ \E c \in Callers :
          /\ calls[c].top = "canExecute"
          /\ calls[c].circuitBreaker[1].state = "OPEN"
          /\ ~calls[c].returned

\* ------------------------------------------------ failures while OPEN

\* C29: a completed recordFailure call that read an OPEN record has left it
\* OPEN with failureCount one higher and lastFailure at the time of its
\* UPDATE, and has appended no event.
C29_FailureWhileOpen ==
    \A c \in Callers :
        ( /\ Finished(c, "recordFailure")
          /\ calls[c].circuitBreaker[1].state = "OPEN" )
        => /\ \A i \in RowsOf(circuitBreakers, calls[c].serviceName) :
                 /\ circuitBreakers[i].state = "OPEN"
                 /\ circuitBreakers[i].failureCount =
                       calls[c].circuitBreaker[1].failureCount + 1
                 /\ circuitBreakers[i].lastFailure = calls[c].date
           /\ calls[c].date # NoDate
           /\ calls[c].date <= now
           /\ logs = calls[c].logsBefore

\* a failure reported while OPEN, a timeout period after the last one, has
\* restarted the cool-down without an event
C29_Witness ==
    \E c \in Callers :
        /\ Finished(c, "recordFailure")
        /\ calls[c].circuitBreaker[1].state = "OPEN"
        /\ calls[c].circuitBreaker[1].lastFailure # NoDate
        /\ calls[c].date - calls[c].circuitBreaker[1].lastFailure >= DefaultTimeout
        /\ Appended(c) = <<>>
        /\ now = calls[c].date
        /\ \A i \in RowsOf(circuitBreakers, calls[c].serviceName) :
              TimeoutElapsed(calls[c].circuitBreaker[1], now)
                 /\ ~TimeoutElapsed(circuitBreakers[i], now)

\* ------------------------------------------------------- late successes

\* caller c's recordSuccess takes its decision on a record it read as OPEN,
\* or as CLOSED with failureCount 0
SuccessOnOpenOrClean(c) ==
    /\ calls[c].method = "recordSuccess"
    /\ calls[c].pc = "decide"
    /\ calls'[c].pc # "decide"
    /\ \/ calls[c].circuitBreaker[1].state = "OPEN"
       \/ /\ calls[c].circuitBreaker[1].state = "CLOSED"
          /\ calls[c].circuitBreaker[1].failureCount = 0

\* C30: a recordSuccess that read its record as OPEN, or as CLOSED with
\* failureCount 0, returns without writing a record or appending an event,
\* also while another guarded call is in progress.
C30_LateSuccessWritesNothing ==
    [][\A c \in Callers :
          SuccessOnOpenOrClean(c) =>
              /\ circuitBreakers' = circuitBreakers
              /\ logs' = logs
              /\ calls'[c].pc = "done"]_vars

\* of two probes admitted together one failed and reopened the breaker;
\* the other then succeeded, its recordSuccess read OPEN, and the breaker
\* is still OPEN
C30_Witness ==
    \E c, d \in Callers :
        /\ c # d
        /\ Finished(c, "executeWithCircuitBreaker")
        /\ calls[c].operationOutcome.kind = "return"
        /\ Count(calls[c].trace, "recordSuccess") = 1
        /\ calls[c].circuitBreaker[1].state = "OPEN"
        /\ calls[d].top = "executeWithCircuitBreaker"
        /\ calls[d].operationOutcome.kind = "throw"
        /\ Count(calls[d].trace, "recordFailure") = 1
        /\ calls[d].circuitBreaker[1].state = "HALF_OPEN"
        /\ StoredState(c, "OPEN")

\* -------------------------------------------------- configuration columns

\* C31: no step of any engine call changes the serviceName, the
\* failureThreshold or the timeout of a record that exists: every record
\* keeps its place in the table and these three columns.
C31_ConfigurationKept ==
    [][\A i \in DOMAIN circuitBreakers :
          /\ i \in DOMAIN circuitBreakers'
          /\ circuitBreakers'[i].serviceName = circuitBreakers[i].serviceName
          /\ circuitBreakers'[i].failureThreshold =
                circuitBreakers[i].failureThreshold
          /\ circuitBreakers'[i].timeout = circuitBreakers[i].timeout]_vars

\* resetAllCircuitBreakers has closed a tripped record whose threshold is
\* not the default one, and the record still has that threshold
C31_Witness ==
    \E c \in Callers :
        /\ Finished(c, "resetAllCircuitBreakers")
        /\ \E i \in DOMAIN circuitBreakers :
              /\ i \in DOMAIN calls[c].before
              /\ circuitBreakers[i].serviceName \in Services
              /\ calls[c].before[i].state = "OPEN"
              /\ circuitBreakers[i].state = "CLOSED"
              /\ circuitBreakers[i].failureThreshold # DefaultFailureThreshold
              /\ circuitBreakers[i].failureThreshold =
                    calls[c].before[i].failureThreshold
              /\ circuitBreakers[i].timeout = calls[c].before[i].timeout

\* ------------------------------------------------------- metrics counts

\* C32: in the result of a completed metrics call, closed, open and
\* halfOpen are the numbers of records read in state CLOSED, OPEN and
\* HALF_OPEN, total is the number of records read, and total is the sum
\* of the three.
C32_MetricsCountsAddUp ==
    \A c \in Callers :
        Finished(c, "getCircuitBreakerMetrics") =>
            LET m == calls[c].metrics
                read == calls[c].before
            IN  /\ m.closed = CountState(read, "CLOSED")
                /\ m.open = CountState(read, "OPEN")
                /\ m.halfOpen = CountState(read, "HALF_OPEN")
                /\ m.total = Len(read)
                /\ m.total = Len(m.circuitBreakers)
                /\ m.total = m.closed + m.open + m.halfOpen

\* a metrics call has counted one closed record with failures on it and
\* one open record
C32_Witness ==
    \E c \in Callers :
        /\ Finished(c, "getCircuitBreakerMetrics")
        /\ calls[c].metrics.total = 2
        /\ calls[c].metrics.closed = 1
        /\ calls[c].metrics.open = 1
        /\ \E i \in DOMAIN calls[c].metrics.circuitBreakers :
              /\ calls[c].metrics.circuitBreakers[i].state = "CLOSED"
              /\ calls[c].metrics.circuitBreakers[i].failureCount > 0

\* ------------------------------------------------------ instance counts

\* no service has fewer than one instance
AtLeastOneInstance ==
    \A i \in DOMAIN services : services[i].instanceCount >= 1

\* a scaleDown call that read a row with one instance or fewer has thrown
\* and written nothing
ScaleDownRefused ==
    \A t \in TaskCallers :
        tasks[t].top = "scaleDown" =>
            /\ tasks[t].pc \in {"update", "log"} =>
                  tasks[t].service[1].instanceCount > 1
            /\ tasks[t].outcome.kind = "throw" => tasks[t].wrote = <<>>

\* no autoScale run has written an instance count above five
AutoScaleCapped ==
    \A t \in TaskCallers :
        tasks[t].top = "autoScale" =>
            \A k \in DOMAIN tasks[t].wrote : tasks[t].wrote[k].instanceCount <= 5

\* C36: a service's instanceCount never drops below 1 through scaleUp,
\* scaleDown or autoScale, scaleDown on a service with one instance fails
\* and changes nothing, and autoScale never raises an instanceCount above 5.
C36_InstanceCountBounds ==
    /\ AtLeastOneInstance
    /\ ScaleDownRefused
    /\ AutoScaleCapped

\* --------------------------------------------------------- selectService

\* the selections a, a + 1, ... up to b were all made round-robin and all
\* read the same set of healthy services
SameHealthySet(a, b) ==
    \A n \in a..b :
        /\ selections[n].algorithm = "round-robin"
        /\ {selections[n].healthy[i] : i \in DOMAIN selections[n].healthy} =
              {selections[a].healthy[i] : i \in DOMAIN selections[a].healthy}

\* C37: selectService returns null exactly when it read no healthy
\* service and otherwise returns one of the healthy services it read; and
\* k consecutive round-robin selections that all read the same k healthy
\* services return each of them exactly once.
C37_RoundRobinVisitsEachOnce ==
    /\ \A n \in DOMAIN selections :
          /\ selections[n].picked = NoService <=> selections[n].healthy = <<>>
          /\ selections[n].picked # NoService =>
                \E i \in DOMAIN selections[n].healthy :
                    selections[n].healthy[i] = selections[n].picked
    /\ \A a \in DOMAIN selections :
          LET k == Len(selections[a].healthy) IN
          (k >= 1 /\ a + k - 1 <= Len(selections) /\ SameHealthySet(a, a + k - 1))
              => \A i \in DOMAIN selections[a].healthy :
                    Cardinality({n \in a..(a + k - 1) :
                        selections[n].picked = selections[a].healthy[i]}) = 1

\* ------------------------------------------------------------ load tests

\* the load tests that have an interval which was not cleared
TestsWithIntervals ==
    {timers[h].owner :
        h \in {k \in DOMAIN timers :
                  timers[k].kind = "interval" /\ timers[k].live}}

\* C34: at most one load test is running at any time (one row of
\* load_tests in status running, the intervals of one test), and a
\* startLoadTest call that failed with an error has created no row and no
\* timer, also when the calls overlap.
C34_SingleLoadTest ==
    /\ Cardinality({i \in DOMAIN loadTests : loadTests[i].status = "running"}) <= 1
    /\ Cardinality(TestsWithIntervals) <= 1
    /\ \A t \in TaskCallers :
          (tasks[t].op = "startLoadTest" /\ tasks[t].outcome.kind = "throw")
              => tasks[t].wrote = <<>>

\* C35: a stopLoadTest run that ends a running test was called by a request
\* or by the duration timer that this test set.
C35_OnlyOwnTimerStops ==
    \A t \in TaskCallers :
        (tasks[t].op = "stopLoadTest" /\ tasks[t].test # 0 /\ tasks[t].timer # 0)
            => timers[tasks[t].timer].owner = tasks[t].test

\* -------------------------------------------------- stopAllSimulations

\* C33: no callback of a simulation that was started before a completed
\* stopAllSimulations call runs after it: none creates a metric row or
\* calls recordFailure.
C33_StopEndsSimulations ==
    \A t \in TaskCallers :
        (tasks[t].op = "failureInterval" /\ tasks[t].pc \in {"record", "done"})
            => ~tasks[t].afterStop


====
